---- MODULE Spec2Model ----
(***************************************************************************)
(* A model of libsyntax/visit.rs, the AST walker.                          *)
(*                                                                         *)
(* A syntax-tree node is a record [k, v, f]: k its kind, v its variant (or *)
(* a name, for leaves) and f its fields, each field a sequence of nodes (a *)
(* mandatory child has length 1, an Option length 0 or 1, a Vec any        *)
(* length).  A node is addressed by its path from the root: the id of the  *)
(* i-th element of field s of the node with id p is p \o <<s, i>>.         *)
(*                                                                         *)
(* A traversal is run as a stack machine: the stack holds the hook calls   *)
(* still to be made, innermost first; one step makes the call on top of    *)
(* the stack, records it in the trace and replaces it by the calls its     *)
(* body issues, in order.                                                  *)
(***************************************************************************)
EXTENDS Naturals, Sequences, FiniteSets, TLC

VARIABLES krate,    \* the tree the entry point was called with
          visitor,  \* which hook the Visitor impl overrides, and how
          entry,    \* the entry point: "walk_crate" or "walk_list"
          stack,    \* hook calls still to be made, next one first
          trace,    \* hook calls made so far, in order
          status    \* "running", "done" (returned) or "panic" (unwound)

vars == <<krate, visitor, entry, stack, trace, status>>

(***************************************************************************)
(* Nodes, fields and calls                                                 *)
(***************************************************************************)
N(k, v, f) == [k |-> k, v |-> v, f |-> f]

NoX == [tag |-> "", ctx |-> <<>>]

\* A hook call: the hook, its node argument and that node's id, and the
\* extra arguments (a FnKind tag, the ids of nodes handed down as context).
Call(h, n, id, x) == [h |-> h, n |-> n, id |-> id, x |-> x]

\* Field s of the node of call c, with the id prefix of its elements.
Slot(c, s) == [l |-> c.n.f[s], at |-> c.id \o <<s>>]

\* Field s of the i-th element of the located field F.
Elem(F, i, s) == [l |-> F.l[i].f[s], at |-> F.at \o <<i, s>>]

RECURSIVE Flat(_)
Flat(ss) == IF ss = <<>> THEN <<>> ELSE Head(ss) \o Flat(Tail(ss))

\* The reversed list: the order a walk_list that iterated backwards would use.
walk_list_rev(h, F, x) ==
    [i \in 1..Len(F.l) |->
        Call(h, F.l[Len(F.l) + 1 - i], F.at \o <<Len(F.l) + 1 - i>>, x)]

\* walk_list!: one call of hook h per element, in order, x passed to each.
walk_list(h, F, x) ==
    [i \in 1..Len(F.l) |-> Call(h, F.l[i], F.at \o <<i>>, x)]

\* visitor.visit_*(&child, extra..): a single call on a mandatory child.
visitx(h, F, x) == <<Call(h, F.l[1], F.at \o <<1>>, x)>>

visit(h, F) == visitx(h, F, NoX)

walk_opt_name(F) == IF F.l # <<>> THEN visit("visit_name", F) ELSE <<>>

walk_opt_ident(F) == IF F.l # <<>> THEN visit("visit_ident", F) ELSE <<>>

walk_opt_sp_ident(F) == IF F.l # <<>> THEN visit("visit_ident", F) ELSE <<>>

\* Ident: <<name>>
walk_ident(c) == visit("visit_name", Slot(c, 1))

\* A walk_crate that walked the attributes before the module.
walk_crate_attrs_first(c) ==
    walk_list("visit_attribute", Slot(c, 2), NoX)
    \o visit("visit_mod", Slot(c, 1))
    \o walk_list("visit_macro_def", Slot(c, 3), NoX)

\* Crate: <<module, attrs, exported_macros>>
walk_crate(c) ==
    visit("visit_mod", Slot(c, 1))
    \o walk_list("visit_attribute", Slot(c, 2), NoX)
    \o walk_list("visit_macro_def", Slot(c, 3), NoX)

\* MacroDef: <<ident, imported_from, attrs>>
walk_macro_def(c) ==
    visit("visit_ident", Slot(c, 1))
    \o walk_opt_ident(Slot(c, 2))
    \o walk_list("visit_attribute", Slot(c, 3), NoX)

\* Mod: <<items>>
walk_mod(c) == walk_list("visit_item", Slot(c, 1), NoX)

\* Local: <<attrs, pat, ty, init>>
walk_local(c) ==
    walk_list("visit_attribute", Slot(c, 1), NoX)
    \o visit("visit_pat", Slot(c, 2))
    \o walk_list("visit_ty", Slot(c, 3), NoX)
    \o walk_list("visit_expr", Slot(c, 4), NoX)

\* Lifetime: <<name>>
walk_lifetime(c) == visit("visit_name", Slot(c, 1))

\* LifetimeDef: <<lifetime, bounds>>
walk_lifetime_def(c) ==
    visit("visit_lifetime", Slot(c, 1))
    \o walk_list("visit_lifetime", Slot(c, 2), NoX)

\* PolyTraitRef: <<bound_lifetimes, trait_ref>>
walk_poly_trait_ref(c) ==
    walk_list("visit_lifetime_def", Slot(c, 1), NoX)
    \o visit("visit_trait_ref", Slot(c, 2))

\* TraitRef: <<path>>
walk_trait_ref(c) == visit("visit_path", Slot(c, 1))

(***************************************************************************)
(* Functions                                                               *)
(***************************************************************************)
\* FunctionRetTy: Default <<>> | Ty <<ty>>
walk_fn_ret_ty(c) ==
    IF c.n.v = "Ty" THEN visit("visit_ty", Slot(c, 1)) ELSE <<>>

\* A walk_fn_decl that visited each parameter's type before its pattern.
walk_fn_decl_ty_first(D) ==
    LET inputs == Elem(D, 1, 1) IN
    Flat([i \in 1..Len(inputs.l) |->
            visit("visit_ty", Elem(inputs, i, 2))
            \o visit("visit_pat", Elem(inputs, i, 1))])
    \o visit("visit_fn_ret_ty", Elem(D, 1, 2))

\* FnDecl: <<inputs, output>>, Arg: <<pat, ty>>.  D is the located field
\* holding the declaration.
walk_fn_decl(D) ==
    LET inputs == Elem(D, 1, 1) IN
    Flat([i \in 1..Len(inputs.l) |->
            visit("visit_pat", Elem(inputs, i, 1))
            \o visit("visit_ty", Elem(inputs, i, 2))])
    \o visit("visit_fn_ret_ty", Elem(D, 1, 2))

\* The arguments of visit_fn, read off the node that holds the function:
\*   ItemFn   ItemKind::Fn          <<decl, generics, body>>
\*   Method   (Trait|Impl)ItemKind::Method <<sig, body>>, MethodSig <<decl, generics>>
\*   Closure  ExprKind::Closure     <<decl, body>>
FnDeclOf(c) ==
    IF c.x.tag = "Method" THEN Elem(Slot(c, 1), 1, 1) ELSE Slot(c, 1)

FnBodyOf(c) ==
    IF c.x.tag = "ItemFn" THEN Slot(c, 3) ELSE Slot(c, 2)

\* A walk_fn_kind that also walked the visibility FnKind::ItemFn carries.
walk_fn_kind_vis(c) ==
    CASE c.x.tag = "ItemFn" ->
            visit("visit_generics", Slot(c, 2))
            \o <<Call("visit_vis", N("Visibility", "Public", <<>>), c.x.ctx[1], NoX)>>
      [] c.x.tag = "Method" -> visit("visit_generics", Elem(Slot(c, 1), 1, 2))
      [] OTHER -> <<>>

walk_fn_kind(c) ==
    CASE c.x.tag = "ItemFn" -> visit("visit_generics", Slot(c, 2))
      [] c.x.tag = "Method" -> visit("visit_generics", Elem(Slot(c, 1), 1, 2))
      [] OTHER -> <<>>

\* A walk_fn that walked the generics before the declaration.
walk_fn_generics_first(c) ==
    walk_fn_kind(c)
    \o walk_fn_decl(FnDeclOf(c))
    \o visit("visit_block", FnBodyOf(c))

walk_fn(c) ==
    walk_fn_decl(FnDeclOf(c))
    \o walk_fn_kind(c)
    \o visit("visit_block", FnBodyOf(c))

\* visitor.visit_fn(fk, decl, body, ..): F holds the function, tag is the
\* FnKind variant and ctx the ids of the nodes the FnKind carries as context.
visit_fn_call(F, tag, ctx) ==
    visitx("visit_fn", F, [tag |-> tag, ctx |-> ctx])

(***************************************************************************)
(* Items                                                                   *)
(***************************************************************************)
\* ViewPath: Simple <<ident, path>> | Glob <<path>> | List <<prefix, list>>
ViewPath(V) ==
    LET vp == V.l[1] IN
    CASE vp.v = "Simple" ->
            visit("visit_ident", Elem(V, 1, 1)) \o visit("visit_path", Elem(V, 1, 2))
      [] vp.v = "Glob" -> visit("visit_path", Elem(V, 1, 1))
      [] vp.v = "List" ->
            visit("visit_path", Elem(V, 1, 1))
            \o walk_list("visit_path_list_item", Elem(V, 1, 2),
                         [tag |-> "", ctx |-> <<V.at \o <<1, 1, 1>> >>])

\* Item: <<vis, ident, node, attrs>>.  K is the ItemKind in field 3:
\*   ExternCrate <<opt_name>>        Use <<view_path>>
\*   Static, Const <<ty, expr>>      Fn <<decl, generics, body>>
\*   Mod <<module>>                  ForeignMod <<items>>
\*   Ty <<ty, generics>>             Enum <<enum_def, generics>>
\*   DefaultImpl <<trait_ref>>       Impl <<generics, opt_trait_ref, ty, impl_items>>
\*   Struct <<struct_def, generics>> Trait <<generics, bounds, methods>>
\*   Mac <<mac>>
ItemKind(c) ==
    LET K == Slot(c, 3)
        k == K.l[1]
        f(s) == Elem(K, 1, s)
        vis == c.id \o <<1, 1>>
        ident == c.id \o <<2, 1>>
    IN
    CASE k.v = "ExternCrate" -> walk_opt_name(f(1))
      [] k.v = "Use" -> ViewPath(f(1))
      [] k.v \in {"Static", "Const"} ->
            visit("visit_ty", f(1)) \o visit("visit_expr", f(2))
      [] k.v = "Fn" -> visit_fn_call(K, "ItemFn", <<vis, ident>>)
      [] k.v = "Mod" -> visit("visit_mod", f(1))
      [] k.v = "ForeignMod" -> walk_list("visit_foreign_item", f(1), NoX)
      [] k.v = "Ty" -> visit("visit_ty", f(1)) \o visit("visit_generics", f(2))
      [] k.v = "Enum" ->
            visit("visit_generics", f(2))
            \o visitx("visit_enum_def", f(1),
                      [tag |-> "", ctx |-> <<f(2).at \o <<1>>, c.id>>])
      [] k.v = "DefaultImpl" -> visit("visit_trait_ref", f(1))
      [] k.v = "Impl" ->
            visit("visit_generics", f(1))
            \o walk_list("visit_trait_ref", f(2), NoX)
            \o visit("visit_ty", f(3))
            \o walk_list("visit_impl_item", f(4), NoX)
      [] k.v = "Struct" ->
            visit("visit_generics", f(2))
            \o visitx("visit_variant_data", f(1),
                      [tag |-> "", ctx |-> <<ident, f(2).at \o <<1>>, c.id>>])
      [] k.v = "Trait" ->
            visit("visit_generics", f(1))
            \o walk_list("visit_ty_param_bound", f(2), NoX)
            \o walk_list("visit_trait_item", f(3), NoX)
      [] k.v = "Mac" -> visit("visit_mac", f(1))

\* A walk_item that walked the attributes right after the name.
walk_item_attrs_early(c) ==
    visit("visit_vis", Slot(c, 1))
    \o visit("visit_ident", Slot(c, 2))
    \o walk_list("visit_attribute", Slot(c, 4), NoX)
    \o ItemKind(c)

walk_item(c) ==
    visit("visit_vis", Slot(c, 1))
    \o visit("visit_ident", Slot(c, 2))
    \o ItemKind(c)
    \o walk_list("visit_attribute", Slot(c, 4), NoX)

\* EnumDef: <<variants>>; the generics and the item id are handed on.
walk_enum_def(c) == walk_list("visit_variant", Slot(c, 1), c.x)

\* Variant: <<name, data, disr_expr, attrs>>
walk_variant(c) ==
    visit("visit_ident", Slot(c, 1))
    \o visitx("visit_variant_data", Slot(c, 2),
              [tag |-> "", ctx |-> <<c.id \o <<1, 1>> >> \o c.x.ctx])
    \o walk_list("visit_expr", Slot(c, 3), NoX)
    \o walk_list("visit_attribute", Slot(c, 4), NoX)

\* VariantData: <<fields>>
walk_struct_def(c) == walk_list("visit_struct_field", Slot(c, 1), NoX)

\* StructField: <<vis, ident, ty, attrs>>
walk_struct_field(c) ==
    visit("visit_vis", Slot(c, 1))
    \o walk_opt_ident(Slot(c, 2))
    \o visit("visit_ty", Slot(c, 3))
    \o walk_list("visit_attribute", Slot(c, 4), NoX)

\* ForeignItem: <<vis, ident, node, attrs>>, node Fn <<decl, generics>> | Static <<ty>>
walk_foreign_item(c) ==
    LET K == Slot(c, 3) IN
    visit("visit_vis", Slot(c, 1))
    \o visit("visit_ident", Slot(c, 2))
    \o (IF K.l[1].v = "Fn"
        THEN walk_fn_decl(Elem(K, 1, 1)) \o visit("visit_generics", Elem(K, 1, 2))
        ELSE visit("visit_ty", Elem(K, 1, 1)))
    \o walk_list("visit_attribute", Slot(c, 4), NoX)

\* A walk_trait_item that walked the declaration of a method without a body
\* before the signature's generics.
walk_trait_item_decl_first(c) ==
    LET K == Slot(c, 3)
        k == K.l[1]
        f(s) == Elem(K, 1, s)
    IN
    visit("visit_ident", Slot(c, 1))
    \o walk_list("visit_attribute", Slot(c, 2), NoX)
    \o (CASE k.v = "Const" ->
                visit("visit_ty", f(1)) \o walk_list("visit_expr", f(2), NoX)
          [] k.v = "Method" /\ f(2).l = <<>> ->
                walk_fn_decl(Elem(f(1), 1, 1))
                \o visit("visit_generics", Elem(f(1), 1, 2))
          [] k.v = "Method" /\ f(2).l # <<>> ->
                visit_fn_call(K, "Method", <<c.id \o <<1, 1>> >>)
          [] k.v = "Type" ->
                walk_list("visit_ty_param_bound", f(1), NoX)
                \o walk_list("visit_ty", f(2), NoX)
          [] k.v = "Macro" -> visit("visit_mac", f(1)))

\* TraitItem: <<ident, attrs, node>>, node Const <<ty, default>> |
\* Method <<sig, body>> (body optional) | Type <<bounds, default>> | Macro <<mac>>
walk_trait_item(c) ==
    LET K == Slot(c, 3)
        k == K.l[1]
        f(s) == Elem(K, 1, s)
    IN
    visit("visit_ident", Slot(c, 1))
    \o walk_list("visit_attribute", Slot(c, 2), NoX)
    \o (CASE k.v = "Const" ->
                visit("visit_ty", f(1)) \o walk_list("visit_expr", f(2), NoX)
          [] k.v = "Method" /\ f(2).l = <<>> ->
                visit("visit_generics", Elem(f(1), 1, 2))
                \o walk_fn_decl(Elem(f(1), 1, 1))
          [] k.v = "Method" /\ f(2).l # <<>> ->
                visit_fn_call(K, "Method", <<c.id \o <<1, 1>> >>)
          [] k.v = "Type" ->
                walk_list("visit_ty_param_bound", f(1), NoX)
                \o walk_list("visit_ty", f(2), NoX)
          [] k.v = "Macro" -> visit("visit_mac", f(1)))

\* ImplItem: <<vis, ident, attrs, node>>, node Const <<ty, expr>> |
\* Method <<sig, body>> | Type <<ty>> | Macro <<mac>>
walk_impl_item(c) ==
    LET K == Slot(c, 4)
        k == K.l[1]
        f(s) == Elem(K, 1, s)
    IN
    visit("visit_vis", Slot(c, 1))
    \o visit("visit_ident", Slot(c, 2))
    \o walk_list("visit_attribute", Slot(c, 3), NoX)
    \o (CASE k.v = "Const" -> visit("visit_ty", f(1)) \o visit("visit_expr", f(2))
          [] k.v = "Method" ->
                visit_fn_call(K, "Method", <<c.id \o <<2, 1>>, c.id \o <<1, 1>> >>)
          [] k.v = "Type" -> visit("visit_ty", f(1))
          [] k.v = "Macro" -> visit("visit_mac", f(1)))

(***************************************************************************)
(* Types, paths, bounds, generics                                          *)
(***************************************************************************)
\* A walk_ty that visited only the bound list of an ObjectSum.
TyObjectSum_bounds_only(c) == walk_list("visit_ty_param_bound", Slot(c, 2), NoX)

\* TyKind::ObjectSum <<ty, bounds>>
TyObjectSum(c) ==
    visit("visit_ty", Slot(c, 1))
    \o walk_list("visit_ty_param_bound", Slot(c, 2), NoX)

\* Ty, by variant:
\*   Vec, Paren, Ptr <<ty>>          Rptr <<opt_lifetime, ty>>
\*   Tup <<tys>>                     BareFn <<decl, lifetimes>>
\*   Path <<qself_ty, path>>         ObjectSum <<ty, bounds>>
\*   FixedLengthVec <<ty, expr>>     PolyTraitRef, ImplTrait <<bounds>>
\*   Typeof <<expr>>                 Mac <<mac>>
\*   Never, Infer, ImplicitSelf <<>>
walk_ty(c) ==
    LET t == c.n.v IN
    CASE t \in {"Vec", "Paren", "Ptr"} -> visit("visit_ty", Slot(c, 1))
      [] t = "Rptr" ->
            walk_list("visit_lifetime", Slot(c, 1), NoX)
            \o visit("visit_ty", Slot(c, 2))
      [] t = "Never" -> <<>>
      [] t = "Tup" -> walk_list("visit_ty", Slot(c, 1), NoX)
      [] t = "BareFn" ->
            walk_fn_decl(Slot(c, 1))
            \o walk_list("visit_lifetime_def", Slot(c, 2), NoX)
      [] t = "Path" ->
            (IF Slot(c, 1).l # <<>> THEN visit("visit_ty", Slot(c, 1)) ELSE <<>>)
            \o visit("visit_path", Slot(c, 2))
      [] t = "ObjectSum" -> TyObjectSum(c)
      [] t = "FixedLengthVec" ->
            visit("visit_ty", Slot(c, 1)) \o visit("visit_expr", Slot(c, 2))
      [] t = "PolyTraitRef" -> walk_list("visit_ty_param_bound", Slot(c, 1), NoX)
      [] t = "ImplTrait" -> walk_list("visit_ty_param_bound", Slot(c, 1), NoX)
      [] t = "Typeof" -> visit("visit_expr", Slot(c, 1))
      [] t \in {"Infer", "ImplicitSelf"} -> <<>>
      [] t = "Mac" -> visit("visit_mac", Slot(c, 1))

\* Path: <<segments>>
walk_path(c) == walk_list("visit_path_segment", Slot(c, 1), NoX)

\* A walk_path_list_item that also walked the prefix it is handed.
walk_path_list_item_prefix(c) ==
    <<Call("visit_path", N("Path", "", <<<<>>>>), c.x.ctx[1], NoX)>>
    \o walk_opt_ident(Slot(c, 1))
    \o walk_opt_ident(Slot(c, 2))

\* PathListItem: <<name, rename>>, both optional; the prefix is not walked.
walk_path_list_item(c) ==
    walk_opt_ident(Slot(c, 1)) \o walk_opt_ident(Slot(c, 2))

\* PathSegment: <<identifier, parameters>>
walk_path_segment(c) ==
    visit("visit_ident", Slot(c, 1))
    \o visit("visit_path_parameters", Slot(c, 2))

\* PathParameters: AngleBracketed <<types, lifetimes, bindings>> |
\* Parenthesized <<inputs, output>>
walk_path_parameters(c) ==
    IF c.n.v = "AngleBracketed"
    THEN walk_list("visit_ty", Slot(c, 1), NoX)
         \o walk_list("visit_lifetime", Slot(c, 2), NoX)
         \o walk_list("visit_assoc_type_binding", Slot(c, 3), NoX)
    ELSE walk_list("visit_ty", Slot(c, 1), NoX)
         \o walk_list("visit_ty", Slot(c, 2), NoX)

\* TypeBinding: <<ident, ty>>
walk_assoc_type_binding(c) ==
    visit("visit_ident", Slot(c, 1)) \o visit("visit_ty", Slot(c, 2))

\* TyParamBound: Trait <<poly_trait_ref>> | Region <<lifetime>>
walk_ty_param_bound(c) ==
    IF c.n.v = "Trait"
    THEN visit("visit_poly_trait_ref", Slot(c, 1))
    ELSE visit("visit_lifetime", Slot(c, 1))

\* Generics: <<ty_params, lifetimes, predicates>>, TyParam <<ident, bounds, default>>,
\* WherePredicate: Bound <<bounded_ty, bounds, bound_lifetimes>> |
\* Region <<lifetime, bounds>> | Eq <<path, ty>>
walk_generics(c) ==
    LET P == Slot(c, 1)
        W == Slot(c, 3)
    IN
    Flat([i \in 1..Len(P.l) |->
            visit("visit_ident", Elem(P, i, 1))
            \o walk_list("visit_ty_param_bound", Elem(P, i, 2), NoX)
            \o walk_list("visit_ty", Elem(P, i, 3), NoX)])
    \o walk_list("visit_lifetime_def", Slot(c, 2), NoX)
    \o Flat([i \in 1..Len(W.l) |->
            CASE W.l[i].v = "Bound" ->
                    visit("visit_ty", Elem(W, i, 1))
                    \o walk_list("visit_ty_param_bound", Elem(W, i, 2), NoX)
                    \o walk_list("visit_lifetime_def", Elem(W, i, 3), NoX)
              [] W.l[i].v = "Region" ->
                    visit("visit_lifetime", Elem(W, i, 1))
                    \o walk_list("visit_lifetime", Elem(W, i, 2), NoX)
              [] W.l[i].v = "Eq" ->
                    visit("visit_path", Elem(W, i, 1))
                    \o visit("visit_ty", Elem(W, i, 2))])

\* Visibility: Restricted <<path>> | Public, Crate, Inherited <<>>
walk_vis(c) ==
    IF c.n.v = "Restricted" THEN visit("visit_path", Slot(c, 1)) ELSE <<>>

(***************************************************************************)
(* Patterns                                                                *)
(***************************************************************************)
\* Pat, by variant:
\*   TupleStruct <<path, children>>  Path <<qself_ty, path>>
\*   Struct <<path, fields>>, FieldPat <<ident, pat>>
\*   Tuple <<elements>>              Box, Ref <<pat>>
\*   Ident <<ident, sub>>            Lit <<expr>>
\*   Range <<lower, upper>>          Vec <<pre, slice, post>>
\*   Mac <<mac>>                     Wild <<>>
walk_pat(c) ==
    LET p == c.n.v
        F == Slot(c, 2)
    IN
    CASE p = "TupleStruct" ->
            visit("visit_path", Slot(c, 1)) \o walk_list("visit_pat", Slot(c, 2), NoX)
      [] p = "Path" ->
            (IF Slot(c, 1).l # <<>> THEN visit("visit_ty", Slot(c, 1)) ELSE <<>>)
            \o visit("visit_path", Slot(c, 2))
      [] p = "Struct" ->
            visit("visit_path", Slot(c, 1))
            \o Flat([i \in 1..Len(F.l) |->
                    visit("visit_ident", Elem(F, i, 1))
                    \o visit("visit_pat", Elem(F, i, 2))])
      [] p = "Tuple" -> walk_list("visit_pat", Slot(c, 1), NoX)
      [] p \in {"Box", "Ref"} -> visit("visit_pat", Slot(c, 1))
      [] p = "Ident" ->
            visit("visit_ident", Slot(c, 1)) \o walk_list("visit_pat", Slot(c, 2), NoX)
      [] p = "Lit" -> visit("visit_expr", Slot(c, 1))
      [] p = "Range" ->
            visit("visit_expr", Slot(c, 1)) \o visit("visit_expr", Slot(c, 2))
      [] p = "Wild" -> <<>>
      [] p = "Vec" ->
            walk_list("visit_pat", Slot(c, 1), NoX)
            \o walk_list("visit_pat", Slot(c, 2), NoX)
            \o walk_list("visit_pat", Slot(c, 3), NoX)
      [] p = "Mac" -> visit("visit_mac", Slot(c, 1))

(***************************************************************************)
(* Blocks, statements, expressions                                         *)
(***************************************************************************)
\* Block: <<stmts>>
walk_block(c) == walk_list("visit_stmt", Slot(c, 1), NoX)

\* A walk_stmt that went on to the attributes without calling visit_mac.
StmtMac_skip_mac(c) == walk_list("visit_attribute", Slot(c, 2), NoX)

\* StmtKind::Mac <<mac, attrs>>
StmtMac(c) ==
    visit("visit_mac", Slot(c, 1))
    \o walk_list("visit_attribute", Slot(c, 2), NoX)

\* Stmt: Local <<local>> | Item <<item>> | Expr, Semi <<expr>> | Mac <<mac, attrs>>
walk_stmt(c) ==
    CASE c.n.v = "Local" -> visit("visit_local", Slot(c, 1))
      [] c.n.v = "Item" -> visit("visit_item", Slot(c, 1))
      [] c.n.v \in {"Expr", "Semi"} -> visit("visit_expr", Slot(c, 1))
      [] c.n.v = "Mac" -> StmtMac(c)

\* walk_mac: empty.
walk_mac(c) == <<>>

\* A Call arm that visited the callee first.
ExprCall_callee_first(c) ==
    visit("visit_expr", Slot(c, 2))
    \o walk_list("visit_expr", Slot(c, 3), NoX)

\* ExprKind::Call <<attrs, callee, args>>
ExprCall(c) ==
    walk_list("visit_expr", Slot(c, 3), NoX)
    \o visit("visit_expr", Slot(c, 2))

\* An assignment arm that visited the target first.
ExprAssign_left_first(c) ==
    visit("visit_expr", Slot(c, 2)) \o visit("visit_expr", Slot(c, 3))

\* ExprKind::Assign, ExprKind::AssignOp <<attrs, lhs, rhs>>
ExprAssign(c) ==
    visit("visit_expr", Slot(c, 3)) \o visit("visit_expr", Slot(c, 2))

\* An If arm that visited the else expression before the then-block.
ExprIf_else_first(c) ==
    IF c.n.v = "If"
    THEN visit("visit_expr", Slot(c, 2))
         \o walk_list("visit_expr", Slot(c, 4), NoX)
         \o visit("visit_block", Slot(c, 3))
    ELSE visit("visit_pat", Slot(c, 2))
         \o visit("visit_expr", Slot(c, 3))
         \o walk_list("visit_expr", Slot(c, 5), NoX)
         \o visit("visit_block", Slot(c, 4))

\* ExprKind::If <<attrs, cond, block, else>>,
\* ExprKind::IfLet <<attrs, pat, expr, block, else>>
ExprIf(c) ==
    IF c.n.v = "If"
    THEN visit("visit_expr", Slot(c, 2))
         \o visit("visit_block", Slot(c, 3))
         \o walk_list("visit_expr", Slot(c, 4), NoX)
    ELSE visit("visit_pat", Slot(c, 2))
         \o visit("visit_expr", Slot(c, 3))
         \o visit("visit_block", Slot(c, 4))
         \o walk_list("visit_expr", Slot(c, 5), NoX)

\* The match on expression.node; field 1 of every Expr is its attrs.
\*   Box, AddrOf, Unary, TupField, Paren, Try <<_, expr>>
\*   InPlace <<_, place, expr>>      Vec, Tup <<_, exprs>>
\*   Repeat <<_, element, count>>    Struct <<_, path, fields, base>>, Field <<ident, expr>>
\*   MethodCall <<_, ident, types, args>>   Binary, Index <<_, left, right>>
\*   Lit <<_>>                       Cast, Type <<_, expr, ty>>
\*   While <<_, cond, block, label>> WhileLet, ForLoop <<_, pat, expr, block, label>>
\*   Loop <<_, block, label>>        Match <<_, expr, arms>>
\*   Closure <<_, fn>>               Block <<_, block>>
\*   Field <<_, expr, ident>>        Range <<_, start, end>>
\*   Path <<_, qself_ty, path>>      Break, Continue <<_, label>>
\*   Ret <<_, expr>>                 Mac <<_, mac>>
\*   InlineAsm <<_, inputs, outputs>>
ExprKind(c) ==
    LET e == c.n.v
        F == Slot(c, 3)
    IN
    CASE e \in {"Box", "AddrOf", "Unary", "TupField", "Paren", "Try"} ->
            visit("visit_expr", Slot(c, 2))
      [] e \in {"InPlace", "Repeat", "Binary", "Index"} ->
            visit("visit_expr", Slot(c, 2)) \o visit("visit_expr", Slot(c, 3))
      [] e \in {"Vec", "Tup"} -> walk_list("visit_expr", Slot(c, 2), NoX)
      [] e = "Struct" ->
            visit("visit_path", Slot(c, 2))
            \o Flat([i \in 1..Len(F.l) |->
                    visit("visit_ident", Elem(F, i, 1))
                    \o visit("visit_expr", Elem(F, i, 2))])
            \o walk_list("visit_expr", Slot(c, 4), NoX)
      [] e = "Call" -> ExprCall(c)
      [] e = "MethodCall" ->
            visit("visit_ident", Slot(c, 2))
            \o walk_list("visit_expr", Slot(c, 4), NoX)
            \o walk_list("visit_ty", Slot(c, 3), NoX)
      [] e = "Lit" -> <<>>
      [] e \in {"Cast", "Type"} ->
            visit("visit_expr", Slot(c, 2)) \o visit("visit_ty", Slot(c, 3))
      [] e \in {"If", "IfLet"} -> ExprIf(c)
      [] e = "While" ->
            visit("visit_expr", Slot(c, 2))
            \o visit("visit_block", Slot(c, 3))
            \o walk_opt_sp_ident(Slot(c, 4))
      [] e \in {"WhileLet", "ForLoop"} ->
            visit("visit_pat", Slot(c, 2))
            \o visit("visit_expr", Slot(c, 3))
            \o visit("visit_block", Slot(c, 4))
            \o walk_opt_sp_ident(Slot(c, 5))
      [] e = "Loop" ->
            visit("visit_block", Slot(c, 2)) \o walk_opt_sp_ident(Slot(c, 3))
      [] e = "Match" ->
            visit("visit_expr", Slot(c, 2)) \o walk_list("visit_arm", Slot(c, 3), NoX)
      [] e = "Closure" -> visit_fn_call(Slot(c, 2), "Closure", <<>>)
      [] e = "Block" -> visit("visit_block", Slot(c, 2))
      [] e \in {"Assign", "AssignOp"} -> ExprAssign(c)
      [] e = "Field" ->
            visit("visit_expr", Slot(c, 2)) \o visit("visit_ident", Slot(c, 3))
      [] e = "Range" ->
            walk_list("visit_expr", Slot(c, 2), NoX)
            \o walk_list("visit_expr", Slot(c, 3), NoX)
      [] e = "Path" ->
            (IF Slot(c, 2).l # <<>> THEN visit("visit_ty", Slot(c, 2)) ELSE <<>>)
            \o visit("visit_path", Slot(c, 3))
      [] e \in {"Break", "Continue"} -> walk_opt_sp_ident(Slot(c, 2))
      [] e = "Ret" -> walk_list("visit_expr", Slot(c, 2), NoX)
      [] e = "Mac" -> visit("visit_mac", Slot(c, 2))
      [] e = "InlineAsm" ->
            walk_list("visit_expr", Slot(c, 2), NoX)
            \o walk_list("visit_expr", Slot(c, 3), NoX)

\* A walk_expr that called visit_expr_post before the match.
walk_expr_post_first(c) ==
    walk_list("visit_attribute", Slot(c, 1), NoX)
    \o <<Call("visit_expr_post", c.n, c.id, NoX)>>
    \o ExprKind(c)

walk_expr(c) ==
    walk_list("visit_attribute", Slot(c, 1), NoX)
    \o ExprKind(c)
    \o <<Call("visit_expr_post", c.n, c.id, NoX)>>

\* Arm: <<pats, guard, body, attrs>>
walk_arm(c) ==
    walk_list("visit_pat", Slot(c, 1), NoX)
    \o walk_list("visit_expr", Slot(c, 2), NoX)
    \o visit("visit_expr", Slot(c, 3))
    \o walk_list("visit_attribute", Slot(c, 4), NoX)

(***************************************************************************)
(* The Visitor trait                                                       *)
(***************************************************************************)
Hooks ==
    {"visit_name", "visit_ident", "visit_mod", "visit_foreign_item", "visit_item",
     "visit_local", "visit_block", "visit_stmt", "visit_arm", "visit_pat",
     "visit_expr", "visit_expr_post", "visit_ty", "visit_generics", "visit_fn",
     "visit_trait_item", "visit_impl_item", "visit_trait_ref",
     "visit_ty_param_bound", "visit_poly_trait_ref", "visit_variant_data",
     "visit_struct_field", "visit_enum_def", "visit_variant", "visit_lifetime",
     "visit_lifetime_def", "visit_mac", "visit_path", "visit_path_list_item",
     "visit_path_segment", "visit_path_parameters", "visit_assoc_type_binding",
     "visit_attribute", "visit_macro_def", "visit_vis", "visit_fn_ret_ty"}

\* The walk_* routine matching hook c.h, applied to the arguments of c;
\* visit_name, visit_expr_post and visit_attribute have none.
Walk(c) ==
    CASE c.h = "visit_name" -> <<>>
      [] c.h = "visit_ident" -> walk_ident(c)
      [] c.h = "visit_mod" -> walk_mod(c)
      [] c.h = "visit_foreign_item" -> walk_foreign_item(c)
      [] c.h = "visit_item" -> walk_item(c)
      [] c.h = "visit_local" -> walk_local(c)
      [] c.h = "visit_block" -> walk_block(c)
      [] c.h = "visit_stmt" -> walk_stmt(c)
      [] c.h = "visit_arm" -> walk_arm(c)
      [] c.h = "visit_pat" -> walk_pat(c)
      [] c.h = "visit_expr" -> walk_expr(c)
      [] c.h = "visit_expr_post" -> <<>>
      [] c.h = "visit_ty" -> walk_ty(c)
      [] c.h = "visit_generics" -> walk_generics(c)
      [] c.h = "visit_fn" -> walk_fn(c)
      [] c.h = "visit_trait_item" -> walk_trait_item(c)
      [] c.h = "visit_impl_item" -> walk_impl_item(c)
      [] c.h = "visit_trait_ref" -> walk_trait_ref(c)
      [] c.h = "visit_ty_param_bound" -> walk_ty_param_bound(c)
      [] c.h = "visit_poly_trait_ref" -> walk_poly_trait_ref(c)
      [] c.h = "visit_variant_data" -> walk_struct_def(c)
      [] c.h = "visit_struct_field" -> walk_struct_field(c)
      [] c.h = "visit_enum_def" -> walk_enum_def(c)
      [] c.h = "visit_variant" -> walk_variant(c)
      [] c.h = "visit_lifetime" -> walk_lifetime(c)
      [] c.h = "visit_lifetime_def" -> walk_lifetime_def(c)
      [] c.h = "visit_mac" -> walk_mac(c)
      [] c.h = "visit_path" -> walk_path(c)
      [] c.h = "visit_path_list_item" -> walk_path_list_item(c)
      [] c.h = "visit_path_segment" -> walk_path_segment(c)
      [] c.h = "visit_path_parameters" -> walk_path_parameters(c)
      [] c.h = "visit_assoc_type_binding" -> walk_assoc_type_binding(c)
      [] c.h = "visit_attribute" -> <<>>
      [] c.h = "visit_macro_def" -> walk_macro_def(c)
      [] c.h = "visit_vis" -> walk_vis(c)
      [] c.h = "visit_fn_ret_ty" -> walk_fn_ret_ty(c)

\* A visit_mac whose default body were walk_mac: it never panics.
DefaultPanics_never(c) == FALSE

\* The default body of visit_mac is panic!("visit_mac disabled by default").
\* A trait every default method of which panicked.
DefaultPanics_always(c) == TRUE

DefaultPanics(c) == c.h = "visit_mac"

\* A Visitor impl: the trait's defaults, with at most one hook overridden,
\*   mode "noop": the override does nothing;
\*   mode "walk": the override calls the hook's walk_* routine once and
\*                then does its own work (the "extra" frame).
DefaultVisitor == [hook |-> "", mode |-> "default"]

ExtraWork(c) == Call("extra", c.n, c.id, [tag |-> c.h, ctx |-> <<>>])

\* An override that did its own work before its call of walk_*.
Override_work_first(v, c, body) ==
    IF v.mode = "noop" THEN <<>> ELSE <<ExtraWork(c)>> \o body

\* The body of the overriding method of v, body being what walk_* issues.
Override(v, c, body) ==
    IF v.mode = "noop" THEN <<>> ELSE body \o <<ExtraWork(c)>>

\* Static dispatch that ignored the impl's override.
Overrides_never(v, c) == FALSE

Overrides(v, c) == v.hook = c.h

\* What the call c runs under the Visitor impl v; W is the walk_* routine
\* the trait's default body of the hook calls.
HookBody(v, c, W(_)) == IF Overrides(v, c) THEN Override(v, c, W(c)) ELSE W(c)

HookPanics(v, c) == ~Overrides(v, c) /\ DefaultPanics(c)

(***************************************************************************)
(* The traversal                                                           *)
(***************************************************************************)
Event(c) == [h |-> c.h, id |-> c.id, x |-> c.x]

\* One hook call: the call on top of the stack is made.  Its body either
\* panics, which unwinds the whole traversal, or issues its calls, which
\* run before whatever the callers still had to do.
StepW(v, st, W(_)) ==
    LET c == Head(st.stack)
        rest == HookBody(v, c, W) \o Tail(st.stack)
    IN
    IF HookPanics(v, c)
    THEN [stack |-> <<>>, trace |-> Append(st.trace, Event(c)), status |-> "panic"]
    ELSE [stack |-> rest, trace |-> Append(st.trace, Event(c)),
          status |-> IF rest = <<>> THEN "done" ELSE "running"]

\* The work an overriding hook does after its call of walk_*.
StepExtra(st) ==
    [stack |-> Tail(st.stack), trace |-> Append(st.trace, Event(Head(st.stack))),
     status |-> IF Tail(st.stack) = <<>> THEN "done" ELSE "running"]

Step(v, st) ==
    IF Head(st.stack).h = "extra" THEN StepExtra(st) ELSE StepW(v, st, Walk)

\* The whole traversal from st on.
RECURSIVE Run(_, _)
Run(v, st) == IF st.status # "running" THEN st ELSE Run(v, Step(v, st))

Now == [stack |-> stack, trace |-> trace, status |-> status]

\* The call on top of the stack is a call of hook h.
Ready(h) == status = "running" /\ Head(stack).h = h

Becomes(st) ==
    /\ stack' = st.stack
    /\ trace' = st.trace
    /\ status' = st.status
    /\ UNCHANGED <<krate, visitor, entry>>

nothing(c) == <<>>

visit_name == Ready("visit_name") /\ Becomes(StepW(visitor, Now, nothing))
visit_ident == Ready("visit_ident") /\ Becomes(StepW(visitor, Now, walk_ident))
visit_mod == Ready("visit_mod") /\ Becomes(StepW(visitor, Now, walk_mod))
visit_foreign_item == Ready("visit_foreign_item") /\ Becomes(StepW(visitor, Now, walk_foreign_item))
visit_item == Ready("visit_item") /\ Becomes(StepW(visitor, Now, walk_item))
visit_local == Ready("visit_local") /\ Becomes(StepW(visitor, Now, walk_local))
visit_block == Ready("visit_block") /\ Becomes(StepW(visitor, Now, walk_block))
visit_stmt == Ready("visit_stmt") /\ Becomes(StepW(visitor, Now, walk_stmt))
visit_arm == Ready("visit_arm") /\ Becomes(StepW(visitor, Now, walk_arm))
visit_pat == Ready("visit_pat") /\ Becomes(StepW(visitor, Now, walk_pat))
visit_expr == Ready("visit_expr") /\ Becomes(StepW(visitor, Now, walk_expr))
visit_expr_post == Ready("visit_expr_post") /\ Becomes(StepW(visitor, Now, nothing))
visit_ty == Ready("visit_ty") /\ Becomes(StepW(visitor, Now, walk_ty))
visit_generics == Ready("visit_generics") /\ Becomes(StepW(visitor, Now, walk_generics))
visit_fn == Ready("visit_fn") /\ Becomes(StepW(visitor, Now, walk_fn))
visit_trait_item == Ready("visit_trait_item") /\ Becomes(StepW(visitor, Now, walk_trait_item))
visit_impl_item == Ready("visit_impl_item") /\ Becomes(StepW(visitor, Now, walk_impl_item))
visit_trait_ref == Ready("visit_trait_ref") /\ Becomes(StepW(visitor, Now, walk_trait_ref))
visit_ty_param_bound == Ready("visit_ty_param_bound") /\ Becomes(StepW(visitor, Now, walk_ty_param_bound))
visit_poly_trait_ref == Ready("visit_poly_trait_ref") /\ Becomes(StepW(visitor, Now, walk_poly_trait_ref))
visit_variant_data == Ready("visit_variant_data") /\ Becomes(StepW(visitor, Now, walk_struct_def))
visit_struct_field == Ready("visit_struct_field") /\ Becomes(StepW(visitor, Now, walk_struct_field))
visit_enum_def == Ready("visit_enum_def") /\ Becomes(StepW(visitor, Now, walk_enum_def))
visit_variant == Ready("visit_variant") /\ Becomes(StepW(visitor, Now, walk_variant))
visit_lifetime == Ready("visit_lifetime") /\ Becomes(StepW(visitor, Now, walk_lifetime))
visit_lifetime_def == Ready("visit_lifetime_def") /\ Becomes(StepW(visitor, Now, walk_lifetime_def))
visit_mac == Ready("visit_mac") /\ Becomes(StepW(visitor, Now, walk_mac))
visit_path == Ready("visit_path") /\ Becomes(StepW(visitor, Now, walk_path))
visit_path_list_item == Ready("visit_path_list_item") /\ Becomes(StepW(visitor, Now, walk_path_list_item))
visit_path_segment == Ready("visit_path_segment") /\ Becomes(StepW(visitor, Now, walk_path_segment))
visit_path_parameters == Ready("visit_path_parameters") /\ Becomes(StepW(visitor, Now, walk_path_parameters))
visit_assoc_type_binding == Ready("visit_assoc_type_binding") /\ Becomes(StepW(visitor, Now, walk_assoc_type_binding))
visit_attribute == Ready("visit_attribute") /\ Becomes(StepW(visitor, Now, nothing))
visit_macro_def == Ready("visit_macro_def") /\ Becomes(StepW(visitor, Now, walk_macro_def))
visit_vis == Ready("visit_vis") /\ Becomes(StepW(visitor, Now, walk_vis))
visit_fn_ret_ty == Ready("visit_fn_ret_ty") /\ Becomes(StepW(visitor, Now, walk_fn_ret_ty))

extra_work == Ready("extra") /\ Becomes(StepExtra(Now))

Next ==
    \/ visit_name \/ visit_ident \/ visit_mod \/ visit_foreign_item
    \/ visit_item \/ visit_local \/ visit_block \/ visit_stmt \/ visit_arm
    \/ visit_pat \/ visit_expr \/ visit_expr_post \/ visit_ty
    \/ visit_generics \/ visit_fn \/ visit_trait_item \/ visit_impl_item
    \/ visit_trait_ref \/ visit_ty_param_bound \/ visit_poly_trait_ref
    \/ visit_variant_data \/ visit_struct_field \/ visit_enum_def
    \/ visit_variant \/ visit_lifetime \/ visit_lifetime_def \/ visit_mac
    \/ visit_path \/ visit_path_list_item \/ visit_path_segment
    \/ visit_path_parameters \/ visit_assoc_type_binding \/ visit_attribute
    \/ visit_macro_def \/ visit_vis \/ visit_fn_ret_ty \/ extra_work

(***************************************************************************)
(* Trees                                                                   *)
(***************************************************************************)
mkIdent(s) == N("Ident", s, << <<N("Name", s, <<>>)>> >>)
mkAttr(s) == N("Attribute", s, <<>>)
mkMac == N("Mac", "", <<>>)
mkLifetime(s) == N("Lifetime", s, << <<N("Name", s, <<>>)>> >>)
mkLifetimeDef(s, bounds) == N("LifetimeDef", "", << <<mkLifetime(s)>>, bounds >>)
NoParams == N("PathParameters", "AngleBracketed", << <<>>, <<>>, <<>> >>)
mkSeg(s, params) == N("PathSegment", "", << <<mkIdent(s)>>, <<params>> >>)
mkPath(segs) == N("Path", "", <<segs>>)
Path1(s) == mkPath(<<mkSeg(s, NoParams)>>)
mkTy(v, f) == N("Ty", v, f)
TyPath(s) == mkTy("Path", << <<>>, <<Path1(s)>> >>)
TyInfer == mkTy("Infer", <<>>)
mkPat(v, f) == N("Pat", v, f)
PatIdent(s) == mkPat("Ident", << <<mkIdent(s)>>, <<>> >>)
PatWild == mkPat("Wild", <<>>)
\* An expression with attributes, and one without.
mkExprA(v, attrs, f) == N("Expr", v, <<attrs>> \o f)
mkExpr(v, f) == mkExprA(v, <<>>, f)
Lit == mkExpr("Lit", <<>>)
ExprPath(s) == mkExpr("Path", << <<>>, <<Path1(s)>> >>)
ExprMac == mkExpr("Mac", << <<mkMac>> >>)
mkStmt(v, f) == N("Stmt", v, f)
StmtExpr(e) == mkStmt("Expr", << <<e>> >>)
StmtSemi(e) == mkStmt("Semi", << <<e>> >>)
mkBlock(stmts) == N("Block", "", <<stmts>>)
BlockOf(e) == mkBlock(<<StmtExpr(e)>>)
Inherited == N("Visibility", "Inherited", <<>>)
Public == N("Visibility", "Public", <<>>)
mkGenerics(params, lifetimes, preds) == N("Generics", "", <<params, lifetimes, preds>>)
NoGenerics == mkGenerics(<<>>, <<>>, <<>>)
mkTyParam(s, bounds, default) == N("TyParam", "", << <<mkIdent(s)>>, bounds, default >>)
mkArg(pat, ty) == N("Arg", "", << <<pat>>, <<ty>> >>)
RetDefault == N("FunctionRetTy", "Default", <<>>)
RetTy(ty) == N("FunctionRetTy", "Ty", << <<ty>> >>)
mkFnDecl(inputs, output) == N("FnDecl", "", << inputs, <<output>> >>)
NoArgsDecl == mkFnDecl(<<>>, RetDefault)
mkSig(decl, generics) == N("MethodSig", "", << <<decl>>, <<generics>> >>)
mkItem(vis, s, v, f, attrs) ==
    N("Item", "", << <<vis>>, <<mkIdent(s)>>, <<N("ItemKind", v, f)>>, attrs >>)
mkFn(s, decl, generics, body) ==
    mkItem(Inherited, s, "Fn", << <<decl>>, <<generics>>, <<body>> >>, <<>>)
\* fn <s>() { <stmts> }
FnOf(s, stmts) == mkFn(s, NoArgsDecl, NoGenerics, mkBlock(stmts))
mkMod(items) == N("Mod", "", <<items>>)
mkCrate(items, attrs, macros) == N("Crate", "", << <<mkMod(items)>>, attrs, macros >>)
CrateOf(items) == mkCrate(items, <<>>, <<>>)
TraitBound(s) ==
    N("TyParamBound", "Trait",
      << <<N("PolyTraitRef", "", << <<>>, <<N("TraitRef", "", << <<Path1(s)>> >>)>> >>)>> >>)
RegionBound(s) == N("TyParamBound", "Region", << <<mkLifetime(s)>> >>)

\* fn f(x: T) -> U { x }
ScenarioFn ==
    mkFn("f", mkFnDecl(<<mkArg(PatIdent("x"), TyPath("T"))>>, RetTy(TyPath("U"))),
         NoGenerics, BlockOf(ExprPath("x")))

\* Expressions: calls, assignments, conditionals.
ExprCrate1 ==
    CrateOf(<<FnOf("g", <<
        StmtSemi(mkExpr("Assign", << <<Lit>>, <<mkExpr("Call", << <<ExprPath("f")>>, <<>> >>)>> >>)),
        StmtSemi(mkExpr("AssignOp",
            << <<mkExpr("Index", << <<Lit>>, <<Lit>> >>)>>,
               <<mkExpr("Call", << <<Lit>>, <<Lit, mkExpr("Unary", << <<Lit>> >>)>> >>)>> >>)),
        StmtExpr(mkExprA("If", <<mkAttr("a")>>,
            << <<Lit>>, <<BlockOf(Lit)>>, <<mkExpr("Block", << <<BlockOf(Lit)>> >>)>> >>)),
        StmtExpr(mkExpr("If", << <<Lit>>, <<BlockOf(Lit)>>, <<>> >>)),
        StmtExpr(mkExpr("IfLet", << <<PatWild>>, <<Lit>>, <<BlockOf(Lit)>>, <<Lit>> >>)),
        StmtExpr(mkExpr("IfLet", << <<PatWild>>, <<Lit>>, <<mkBlock(<<>>)>>, <<>> >>))
    >>)>>)

\* Expressions: loops, match, closure, the rest of the compound forms.
ExprCrate2 ==
    CrateOf(<<FnOf("g", <<
        StmtExpr(mkExpr("While", << <<Lit>>, <<mkBlock(<<>>)>>, <<mkIdent("l")>> >>)),
        StmtExpr(mkExpr("WhileLet", << <<PatWild>>, <<Lit>>, <<mkBlock(<<>>)>>, <<>> >>)),
        StmtExpr(mkExpr("ForLoop", << <<PatWild>>, <<Lit>>, <<BlockOf(
            mkExpr("Break", << <<mkIdent("l")>> >>))>>, <<mkIdent("l")>> >>)),
        StmtExpr(mkExpr("Loop", << <<BlockOf(mkExpr("Continue", << <<>> >>))>>, <<>> >>)),
        StmtExpr(mkExpr("Match", << <<Lit>>,
            <<N("Arm", "", << <<PatWild, PatWild>>, <<Lit>>, <<Lit>>, <<mkAttr("a")>> >>),
              N("Arm", "", << <<PatWild>>, <<>>, <<Lit>>, <<>> >>)>> >>)),
        StmtExpr(mkExpr("Closure",
            << <<N("ExprKind", "Closure",
                   << <<mkFnDecl(<<mkArg(PatWild, TyInfer)>>, RetDefault)>>, <<BlockOf(Lit)>> >>)>> >>)),
        StmtExpr(mkExpr("Ret", << <<Lit>> >>))
    >>)>>)

ExprCrate3 ==
    CrateOf(<<FnOf("g", <<
        StmtExpr(mkExpr("MethodCall", << <<mkIdent("m")>>, <<TyInfer>>, <<Lit, Lit>> >>)),
        StmtExpr(mkExpr("Struct", << <<Path1("S")>>,
            <<N("Field", "", << <<mkIdent("a")>>, <<Lit>> >>),
              N("Field", "", << <<mkIdent("b")>>, <<Lit>> >>)>>, <<Lit>> >>)),
        StmtExpr(mkExpr("Binary", << <<mkExpr("Paren", << <<Lit>> >>)>>, <<Lit>> >>)),
        StmtExpr(mkExpr("Field", << <<mkExpr("TupField", << <<Lit>> >>)>>, <<mkIdent("a")>> >>)),
        StmtExpr(mkExpr("Range", << <<Lit>>, <<Lit>> >>)),
        StmtExpr(mkExpr("Range", << <<>>, <<>> >>)),
        StmtExpr(mkExpr("Cast", << <<mkExpr("Box", << <<Lit>> >>)>>, <<TyInfer>> >>)),
        StmtExpr(mkExpr("Type", << <<mkExpr("Try", << <<Lit>> >>)>>, <<TyInfer>> >>)),
        StmtExpr(mkExpr("InlineAsm", << <<Lit>>, <<Lit, Lit>> >>)),
        StmtExpr(mkExpr("Vec", << <<Lit, Lit>> >>)),
        StmtExpr(mkExpr("Tup", << <<>> >>)),
        StmtExpr(mkExpr("Repeat", << <<Lit>>, <<Lit>> >>)),
        StmtExpr(mkExpr("InPlace", << <<Lit>>, <<mkExpr("AddrOf", << <<Lit>> >>)>> >>)),
        StmtExpr(mkExpr("Path", << <<TyInfer>>, <<Path1("p")>> >>)),
        StmtExpr(mkExpr("Ret", << <<>> >>))
    >>)>>)

mkLocal(attrs, pat, ty, init) == N("Local", "", << attrs, <<pat>>, ty, init >>)
StmtLocal(l) == mkStmt("Local", << <<l>> >>)
LetTy(ty) == StmtLocal(mkLocal(<<>>, PatWild, <<ty>>, <<>>))
LetPat(pat) == StmtLocal(mkLocal(<<>>, pat, <<>>, <<>>))

\* Types and path parameters.
TypeCrate ==
    CrateOf(<<FnOf("t", <<
        StmtLocal(mkLocal(<<mkAttr("a")>>, PatIdent("x"), <<TyInfer>>, <<Lit>>)),
        LetTy(mkTy("Vec", << <<mkTy("Paren", << <<mkTy("Ptr", << <<mkTy("Never", <<>>)>> >>)>> >>)>> >>)),
        LetTy(mkTy("Rptr", << <<mkLifetime("a")>>, <<mkTy("ImplicitSelf", <<>>)>> >>)),
        LetTy(mkTy("Rptr", << <<>>, <<mkTy("Tup", << <<TyInfer, TyInfer>> >>)>> >>)),
        LetTy(mkTy("BareFn", << <<mkFnDecl(<<mkArg(PatWild, TyInfer)>>, RetTy(TyInfer))>>,
                                <<mkLifetimeDef("a", <<mkLifetime("b")>>)>> >>)),
        LetTy(mkTy("Path", << <<TyInfer>>, <<mkPath(<<
            mkSeg("A", N("PathParameters", "AngleBracketed",
                << <<TyInfer>>, <<mkLifetime("a")>>,
                   <<N("TypeBinding", "", << <<mkIdent("B")>>, <<TyInfer>> >>)>> >>)),
            mkSeg("F", N("PathParameters", "Parenthesized", << <<TyInfer>>, <<TyInfer>> >>))>>)>> >>)),
        LetTy(mkTy("ObjectSum", << <<TyPath("T")>>, <<TraitBound("B"), RegionBound("a")>> >>)),
        LetTy(mkTy("ObjectSum", << <<TyInfer>>, <<>> >>)),
        LetTy(mkTy("FixedLengthVec", << <<TyInfer>>, <<Lit>> >>)),
        LetTy(mkTy("PolyTraitRef", << <<TraitBound("B"), RegionBound("a")>> >>)),
        LetTy(mkTy("ImplTrait", << <<RegionBound("a")>> >>)),
        LetTy(mkTy("Typeof", << <<Lit>> >>))
    >>)>>)

\* Patterns, and an item in statement position.
PatCrate ==
    CrateOf(<<FnOf("p", <<
        LetPat(mkPat("TupleStruct", << <<Path1("S")>>, <<PatWild, PatIdent("x")>> >>)),
        LetPat(mkPat("Path", << <<TyInfer>>, <<Path1("P")>> >>)),
        LetPat(mkPat("Path", << <<>>, <<Path1("P")>> >>)),
        LetPat(mkPat("Struct", << <<Path1("S")>>,
            <<N("FieldPat", "", << <<mkIdent("a")>>, <<PatWild>> >>),
              N("FieldPat", "", << <<mkIdent("b")>>, <<PatWild>> >>)>> >>)),
        LetPat(mkPat("Tuple", << <<PatWild, PatWild>> >>)),
        LetPat(mkPat("Box", << <<mkPat("Ref", << <<PatWild>> >>)>> >>)),
        LetPat(mkPat("Ident", << <<mkIdent("x")>>, <<PatWild>> >>)),
        LetPat(mkPat("Lit", << <<Lit>> >>)),
        LetPat(mkPat("Range", << <<Lit>>, <<Lit>> >>)),
        LetPat(mkPat("Vec", << <<PatWild>>, <<PatWild>>, <<PatWild, PatWild>> >>)),
        mkStmt("Item", << <<FnOf("inner", <<>>)>> >>)
    >>)>>)

PathList(name, rename) == N("PathListItem", "", <<name, rename>>)

\* Items without generics of their own, crate attributes, exported macros.
ItemCrate1 ==
    mkCrate(<<
        mkItem(Inherited, "a", "ExternCrate", << <<N("Name", "b", <<>>)>> >>, <<>>),
        mkItem(Inherited, "a", "ExternCrate", << <<>> >>, <<mkAttr("a")>>),
        mkItem(Inherited, "u", "Use",
            << <<N("ViewPath", "Simple", << <<mkIdent("r")>>, <<Path1("p")>> >>)>> >>, <<>>),
        mkItem(Public, "u", "Use", << <<N("ViewPath", "Glob", << <<Path1("p")>> >>)>> >>, <<>>),
        mkItem(Inherited, "u", "Use",
            << <<N("ViewPath", "List", << <<Path1("p")>>,
                <<PathList(<<mkIdent("a")>>, <<mkIdent("b")>>), PathList(<<>>, <<>>)>> >>)>> >>,
            <<mkAttr("a"), mkAttr("b")>>),
        mkItem(N("Visibility", "Restricted", << <<Path1("m")>> >>), "S", "Static",
            << <<TyInfer>>, <<Lit>> >>, <<>>),
        mkItem(Inherited, "C", "Const", << <<TyInfer>>, <<Lit>> >>, <<>>),
        mkItem(Inherited, "m", "Mod", << <<mkMod(<<FnOf("h", <<>>)>>)>> >>, <<mkAttr("a")>>),
        mkItem(Inherited, "e", "ForeignMod",
            << <<N("ForeignItem", "", << <<Public>>, <<mkIdent("ff")>>,
                     <<N("ForeignItemKind", "Fn", << <<NoArgsDecl>>, <<NoGenerics>> >>)>>,
                     <<mkAttr("a")>> >>),
                 N("ForeignItem", "", << <<Inherited>>, <<mkIdent("fs")>>,
                     <<N("ForeignItemKind", "Static", << <<TyInfer>> >>)>>, <<>> >>)>> >>, <<>>),
        mkItem(Inherited, "D", "DefaultImpl", << <<N("TraitRef", "", << <<Path1("T")>> >>)>> >>, <<>>)
    >>,
    <<mkAttr("c1"), mkAttr("c2")>>,
    <<N("MacroDef", "", << <<mkIdent("m1")>>, <<mkIdent("k")>>, <<mkAttr("a")>> >>),
      N("MacroDef", "", << <<mkIdent("m2")>>, <<>>, <<>> >>)>>)

SomeGenerics ==
    mkGenerics(
        <<mkTyParam("T", <<TraitBound("B"), RegionBound("a")>>, <<TyInfer>>),
          mkTyParam("U", <<>>, <<>>)>>,
        <<mkLifetimeDef("a", <<>>)>>,
        <<N("WherePredicate", "Bound",
              << <<TyInfer>>, <<RegionBound("a")>>, <<mkLifetimeDef("b", <<>>)>> >>),
          N("WherePredicate", "Region", << <<mkLifetime("a")>>, <<mkLifetime("b")>> >>),
          N("WherePredicate", "Eq", << <<Path1("P")>>, <<TyInfer>> >>)>>)

OneParam(s) == mkGenerics(<<mkTyParam(s, <<>>, <<>>)>>, <<>>, <<>>)

mkField(vis, ident, ty, attrs) == N("StructField", "", << <<vis>>, ident, <<ty>>, attrs >>)
mkVariantData(fields) == N("VariantData", "", <<fields>>)
mkVariant(s, fields, disr, attrs) ==
    N("Variant", "", << <<mkIdent(s)>>, <<mkVariantData(fields)>>, disr, attrs >>)

\* Items with generics: type alias, enum, struct, generic fn.
ItemCrate2 ==
    CrateOf(<<
        mkItem(Inherited, "A", "Ty", << <<TyInfer>>, <<SomeGenerics>> >>, <<>>),
        mkItem(Inherited, "E", "Enum",
            << <<N("EnumDef", "", << <<
                    mkVariant("V", <<mkField(Inherited, <<>>, TyInfer, <<>>)>>, <<Lit>>, <<mkAttr("a")>>),
                    mkVariant("W", <<>>, <<>>, <<>>)>> >>)>>,
               <<OneParam("T")>> >>, <<>>),
        mkItem(Public, "S", "Struct",
            << <<mkVariantData(<<mkField(Public, <<mkIdent("x")>>, TyInfer, <<mkAttr("a")>>)>>)>>,
               <<OneParam("T")>> >>, <<mkAttr("a")>>),
        mkFn("gf", NoArgsDecl, OneParam("T"), mkBlock(<<>>))
    >>)

mkTraitItem(s, attrs, v, f) ==
    N("TraitItem", "", << <<mkIdent(s)>>, attrs, <<N("TraitItemKind", v, f)>> >>)
mkImplItem(vis, s, attrs, v, f) ==
    N("ImplItem", "", << <<vis>>, <<mkIdent(s)>>, attrs, <<N("ImplItemKind", v, f)>> >>)
ArgDecl == mkFnDecl(<<mkArg(PatIdent("x"), TyInfer)>>, RetTy(TyInfer))

\* Traits and impls.
ItemCrate3 ==
    CrateOf(<<
        mkItem(Inherited, "T", "Trait",
            << <<OneParam("T")>>, <<TraitBound("B")>>,
               <<mkTraitItem("c", <<>>, "Const", << <<TyInfer>>, <<Lit>> >>),
                 mkTraitItem("d", <<>>, "Const", << <<TyInfer>>, <<>> >>),
                 mkTraitItem("m", <<mkAttr("a")>>, "Method",
                     << <<mkSig(ArgDecl, OneParam("M"))>>, <<>> >>),
                 mkTraitItem("n", <<mkAttr("a")>>, "Method",
                     << <<mkSig(ArgDecl, OneParam("M"))>>, <<BlockOf(Lit)>> >>),
                 mkTraitItem("t", <<>>, "Type", << <<RegionBound("a")>>, <<TyInfer>> >>)>> >>,
            <<mkAttr("a")>>),
        mkItem(Inherited, "I", "Impl",
            << <<OneParam("T")>>, <<N("TraitRef", "", << <<Path1("T")>> >>)>>, <<TyInfer>>,
               <<mkImplItem(Inherited, "c", <<>>, "Const", << <<TyInfer>>, <<Lit>> >>),
                 mkImplItem(Public, "m", <<mkAttr("a")>>, "Method",
                     << <<mkSig(ArgDecl, OneParam("M"))>>, <<BlockOf(Lit)>> >>),
                 mkImplItem(Inherited, "t", <<>>, "Type", << <<TyInfer>> >>)>> >>, <<>>),
        mkItem(Inherited, "I", "Impl", << <<NoGenerics>>, <<>>, <<TyInfer>>, <<>> >>, <<>>)
    >>)

\* fn two<G>(a: _, _: T) -> _ { #[a] #[b] (lit + lit) }
FnCrate ==
    CrateOf(<<mkFn("two",
                   mkFnDecl(<<mkArg(PatIdent("a"), TyInfer), mkArg(PatWild, TyPath("T"))>>,
                            RetTy(TyInfer)),
                   OneParam("G"),
                   BlockOf(mkExprA("Binary", <<mkAttr("a"), mkAttr("b")>>,
                                   << <<Lit>>, <<Lit>> >>)))>>)

\* One crate per position a macro invocation can take; each is followed by
\* nodes a completed traversal would still visit.
MacCrates ==
    {mkCrate(<<mkItem(Inherited, "m", "Mac", << <<mkMac>> >>, <<mkAttr("a")>>), FnOf("after", <<>>)>>,
             <<mkAttr("c")>>, <<>>),
     CrateOf(<<FnOf("f", <<LetTy(mkTy("Mac", << <<mkMac>> >>)), StmtExpr(Lit)>>)>>),
     CrateOf(<<FnOf("f", <<LetPat(mkPat("Mac", << <<mkMac>> >>)), StmtExpr(Lit)>>)>>),
     CrateOf(<<FnOf("f", <<StmtExpr(mkExpr("Binary", << <<ExprMac>>, <<Lit>> >>))>>)>>),
     CrateOf(<<FnOf("f", <<mkStmt("Mac", << <<mkMac>>, <<mkAttr("a"), mkAttr("b")>> >>),
                           StmtExpr(Lit)>>)>>),
     CrateOf(<<mkItem(Inherited, "T", "Trait",
                 << <<NoGenerics>>, <<>>,
                    <<mkTraitItem("x", <<>>, "Macro", << <<mkMac>> >>),
                      mkTraitItem("d", <<>>, "Const", << <<TyInfer>>, <<>> >>)>> >>, <<>>)>>),
     CrateOf(<<mkItem(Inherited, "I", "Impl",
                 << <<NoGenerics>>, <<>>, <<TyInfer>>,
                    <<mkImplItem(Inherited, "x", <<>>, "Macro", << <<mkMac>> >>),
                      mkImplItem(Inherited, "t", <<>>, "Type", << <<TyInfer>> >>)>> >>, <<>>)>>)}

SampleCrates ==
    {CrateOf(<<ScenarioFn>>), ExprCrate1, ExprCrate2, ExprCrate3, TypeCrate, PatCrate,
     ItemCrate1, ItemCrate2, ItemCrate3, FnCrate} \cup MacCrates

\* The longest generated list (call arguments, walk_list inputs).
MaxLen == 2

SeqsUpTo(S, n) == UNION {[1..k -> S] : k \in 0..n}

ArgPool == {Lit, ExprMac, mkExpr("Assign", << <<Lit>>, <<Lit>> >>)}

\* fn c() { callee(args) } and fn c() { l = r }, fn c() { l += r }
GenCrates ==
    {CrateOf(<<FnOf("c", <<StmtExpr(mkExpr("Call", << <<callee>>, args >>))>>)>>) :
        callee \in {Lit, ExprMac}, args \in SeqsUpTo(ArgPool, MaxLen)}
    \cup
    {CrateOf(<<FnOf("c", <<StmtExpr(mkExpr(op, << <<l>>, <<r>> >>))>>)>>) :
        op \in {"Assign", "AssignOp"}, l \in ArgPool, r \in ArgPool}

\* The inputs of a walk_list! used on its own: the list is field 1 of a
\* holder node, the context node handed to visit_variant is its field 2.
ListHolders ==
    {N("List", "visit_expr", <<l, <<>> >>) : l \in SeqsUpTo(ArgPool, MaxLen)}
    \cup
    {N("List", "visit_variant", <<l, <<NoGenerics>> >>) :
        l \in SeqsUpTo({mkVariant("V", <<>>, <<Lit>>, <<>>), mkVariant("W", <<>>, <<>>, <<>>)},
                       MaxLen)}

ListExtra(holder) ==
    IF holder.v = "visit_variant" THEN [tag |-> "", ctx |-> << <<2, 1>>, <<>> >>] ELSE NoX

AllVisitors ==
    {DefaultVisitor} \cup {[hook |-> h, mode |-> m] : h \in Hooks, m \in {"noop", "walk"}}

GenVisitors ==
    {DefaultVisitor, [hook |-> "visit_mac", mode |-> "noop"],
     [hook |-> "visit_expr", mode |-> "walk"], [hook |-> "visit_attribute", mode |-> "noop"]}

Root(n) == Call("", n, <<>>, NoX)

\* What the entry point issues before it returns.
EntryCalls(e, n) ==
    IF e = "walk_crate" THEN walk_crate(Root(n))
    ELSE walk_list(n.v, Slot(Root(n), 1), ListExtra(n))

Init ==
    /\ \/ /\ krate \in SampleCrates
          /\ visitor \in AllVisitors
          /\ entry = "walk_crate"
       \/ /\ krate \in GenCrates
          /\ visitor \in GenVisitors
          /\ entry = "walk_crate"
       \/ /\ krate \in ListHolders
          /\ visitor \in GenVisitors
          /\ entry = "walk_list"
    /\ stack = EntryCalls(entry, krate)
    /\ trace = <<>>
    /\ status = IF stack = <<>> THEN "done" ELSE "running"

Spec == Init /\ [][Next]_vars

\* A traversal is one sequential computation: while a hook call is pending
\* the program goes on to make it.
FairSpec == Spec /\ WF_vars(Next)

(***************************************************************************)
(* Reading a finished traversal                                            *)
(***************************************************************************)
RECURSIVE NodeIn(_, _)
NodeIn(n, id) ==
    IF id = <<>> THEN n ELSE NodeIn(n.f[id[1]][id[2]], SubSeq(id, 3, Len(id)))

\* The node of the tree with the given id.
NodeAt(id) == NodeIn(krate, id)

IsPrefix(a, b) == Len(a) <= Len(b) /\ SubSeq(b, 1, Len(a)) = a

\* b is in the subtree of a; b is a proper descendant of a.
Under(a, b) == IsPrefix(a, b)
Below(a, b) == IsPrefix(a, b) /\ a # b

Finished == status # "running"

Idx == 1..Len(trace)

\* Event i of the trace is the call of hook h on the node id.
Is(i, h, id) == trace[i].h = h /\ trace[i].id = id

\* The positions of the calls of hook h on the node id.
At(h, id) == {i \in Idx : Is(i, h, id)}

\* The body of the trait's walk routine ran for event i (the hook was not
\* overridden by a method that does nothing).
WalkRan(i) == ~(visitor.hook = trace[i].h /\ visitor.mode = "noop")

\* The visit_expr calls whose node is an expression of one of the variants vs
\* and for which walk_expr ran.
WalkedExprs(vs) ==
    {i \in Idx : trace[i].h = "visit_expr" /\ WalkRan(i) /\ NodeAt(trace[i].id).v \in vs}

\* The traversal the same entry point makes with the Visitor impl v.
Start ==
    [stack |-> EntryCalls(entry, krate), trace |-> <<>>,
     status |-> IF EntryCalls(entry, krate) = <<>> THEN "done" ELSE "running"]

(***************************************************************************)
(* C1: execution order                                                     *)
(***************************************************************************)
\* The operands of an expression in the order the language evaluates them:
\* a call evaluates the function operand and then the arguments left to
\* right, an assignment its right operand and then the place assigned to,
\* the other forms their operands from left to right.
EvalOrder(p) ==
    LET e == NodeAt(p)
        list(s) == [i \in 1..Len(e.f[s]) |-> p \o <<s, i>>]
    IN
    CASE e.k # "Expr" -> <<>>
      [] e.v = "Call" -> list(2) \o list(3)
      [] e.v = "Assign" -> list(3) \o list(2)
      [] e.v \in {"Binary", "Index"} -> list(2) \o list(3)
      [] e.v \in {"Vec", "Tup"} -> list(2)
      [] e.v = "MethodCall" -> list(4)
      [] OTHER -> <<>>

\* Expression a may execute before expression b: they sit in two operands of
\* one expression, a in the operand that is evaluated first.
MayExecBefore(a, b) ==
    \E n \in 0..(Len(a) \div 2) :
        LET ord == EvalOrder(SubSeq(a, 1, 2 * n)) IN
        \E u, w \in 1..Len(ord) : u < w /\ Under(ord[u], a) /\ Under(ord[w], b)

\* C1: with a Visitor that overrides no hook, for any two expressions A and
\* B of a function body such that A may execute before B, visit_expr is
\* called on A before it is called on B.
ExecutionOrder ==
    (Finished /\ visitor = DefaultVisitor /\ entry = "walk_crate") =>
        \A i, j \in Idx :
            (/\ trace[i].h = "visit_expr"
             /\ trace[j].h = "visit_expr"
             /\ MayExecBefore(trace[i].id, trace[j].id)) => i < j

(***************************************************************************)
(* C2: assignments                                                         *)
(***************************************************************************)
LhsOf(p) == p \o <<2, 1>>
RhsOf(p) == p \o <<3, 1>>

\* C2: for every Assign and AssignOp expression that walk_expr walks,
\* visit_expr is called on the right-hand side before it is called on the
\* left-hand side, the left-hand side is the last child visited, and with
\* the default visitor every hook call of the right-hand subtree is made
\* before the call on the left-hand side; a traversal that returns has
\* visited both sides once.
AssignRightBeforeLeft ==
    Finished =>
        \A i \in WalkedExprs({"Assign", "AssignOp"}) :
            LET p == trace[i].id IN
            /\ \A j \in At("visit_expr", LhsOf(p)) :
                /\ \E k \in At("visit_expr", RhsOf(p)) : k < j
                /\ \A k \in Idx :
                      (Is(k, "visit_expr", p \o <<2, 2>>) \/ Is(k, "visit_expr", RhsOf(p)))
                          => k < j
                /\ visitor = DefaultVisitor =>
                      \A k \in Idx : Under(RhsOf(p), trace[k].id) => k < j
            /\ status = "done" =>
                /\ Cardinality(At("visit_expr", LhsOf(p))) = 1
                /\ Cardinality(At("visit_expr", RhsOf(p))) = 1

\* An assignment whose right-hand side has children has been walked to the end.
AssignWalked ==
    /\ status = "done"
    /\ visitor = DefaultVisitor
    /\ \E i \in WalkedExprs({"AssignOp"}) :
          /\ At("visit_expr", LhsOf(trace[i].id)) # {}
          /\ \E k \in Idx : Below(RhsOf(trace[i].id), trace[k].id)

(***************************************************************************)
(* C3: calls                                                               *)
(***************************************************************************)
CalleeOf(p) == p \o <<2, 1>>
ArgOf(p, m) == p \o <<3, m>>

Prunes == visitor.mode = "noop" /\ visitor.hook # "visit_expr_post"

\* What the visitor that overrides nothing does from the same entry point.
Unmodified == Run(DefaultVisitor, Start)

\* The nodes the overridden hook was called on.
Overridden == {trace[i].id : i \in {j \in Idx : trace[j].h = visitor.hook}}

\* Event e is a call on a node outside the subtrees of the nodes the
\* overridden hook was called on, or the call of the overridden hook on the
\* root of such a subtree.
OutsideOverridden(e) ==
    \/ \A r \in Overridden : ~Under(r, e.id)
    \/ e.h = visitor.hook /\ \A r \in Overridden : ~Below(r, e.id)

\* The calls of the run, and of the unmodified visitor, outside those subtrees.
TraceOutside == SelectSeq(trace, OutsideOverridden)
UnmodifiedOutside == SelectSeq(Unmodified.trace, OutsideOverridden)

\* No hook is called on a descendant of a node the do-nothing hook was called on.
NoCallBelowPruned ==
    \A i, j \in Idx : trace[i].h = visitor.hook => ~Below(trace[i].id, trace[j].id)

\* C4 as stated: with one hook overridden by a method that does nothing, no
\* hook is called on a descendant of a node of that kind, and the nodes
\* outside those subtrees are visited exactly as by the unmodified visitor.
PruningAsStated ==
    (Finished /\ Prunes) =>
        /\ NoCallBelowPruned
        /\ TraceOutside = UnmodifiedOutside

\* C4 as amended: no hook is called on a descendant of a node of that kind;
\* the calls the unmodified visitor makes outside those subtrees are the
\* first calls of the pruning visitor, in the same order, and they are all
\* of its calls whenever the unmodified traversal returns normally (an
\* unmodified traversal that dies in visit_mac stops there, while the
\* pruning one goes on if the macro was pruned away).
Pruning ==
    (Finished /\ Prunes) =>
        /\ NoCallBelowPruned
        /\ IsPrefix(UnmodifiedOutside, TraceOutside)
        /\ Unmodified.status = "done" =>
              (TraceOutside = UnmodifiedOutside /\ status = "done")

\* A pruning visitor has returned after skipping calls the unmodified one makes.
PrunedSomething ==
    /\ status = "done"
    /\ visitor = [hook |-> "visit_block", mode |-> "noop"]
    /\ Unmodified.status = "done"
    /\ Len(trace) + 5 < Len(Unmodified.trace)
    /\ Overridden # {}

IsHookCall(e) == e.h # "extra"

\* The hook calls made, without the overriding method's own work.
HookCalls == SelectSeq(trace, IsHookCall)

\* The positions of the extra work done for the node id.
ExtraAt(id) == {i \in Idx : Is(i, "extra", id)}

\* C5 as stated: a visitor whose override calls walk_* once and then does
\* extra work makes the same hook calls as the visitor that overrides
\* nothing, and does the extra work exactly once per node of that kind,
\* after all hook calls of the node's subtree.
ExtensionAsStated ==
    (Finished /\ visitor.mode = "walk") =>
        /\ HookCalls = Unmodified.trace
        /\ \A i \in Idx :
              trace[i].h = visitor.hook =>
                  /\ Cardinality(ExtraAt(trace[i].id)) = 1
                  /\ \A j \in ExtraAt(trace[i].id) :
                        \A k \in Idx : (k # j /\ Under(trace[i].id, trace[k].id)) => k < j

\* C5 as amended: for every hook but visit_mac (whose default is not its
\* walk routine), the extending visitor makes the same hook calls as the
\* unmodified one and ends the same way; the extra work is done at most once
\* per node of that kind, after all hook calls of the node's subtree, and
\* exactly once for every such node when the traversal returns normally.
Extension ==
    (Finished /\ visitor.mode = "walk" /\ visitor.hook # "visit_mac") =>
        /\ HookCalls = Unmodified.trace
        /\ status = Unmodified.status
        /\ \A j \in Idx :
              trace[j].h = "extra" => At(visitor.hook, trace[j].id) # {}
        /\ \A i \in Idx :
              trace[i].h = visitor.hook =>
                  /\ Cardinality(ExtraAt(trace[i].id)) <= 1
                  /\ status = "done" => Cardinality(ExtraAt(trace[i].id)) = 1
                  /\ \A j \in ExtraAt(trace[i].id) :
                        \A k \in Idx : (k # j /\ Under(trace[i].id, trace[k].id)) => k < j

\* An extending visitor has returned after doing extra work for nested nodes.
ExtendedSomething ==
    /\ status = "done"
    /\ visitor = [hook |-> "visit_expr", mode |-> "walk"]
    /\ \E i, j \in Idx :
          /\ trace[i].h = "extra"
          /\ trace[j].h = "extra"
          /\ Below(trace[j].id, trace[i].id)

(***************************************************************************)
(* C6: completeness                                                        *)
(***************************************************************************)
RECURSIVE NodesUnder(_, _)
NodesUnder(n, id) ==
    {id} \cup UNION {UNION {NodesUnder(n.f[s][i], id \o <<s, i>>) : i \in 1..Len(n.f[s])} :
                        s \in 1..Len(n.f)}

\* The ids of the nodes of the tree.
NodeIds == NodesUnder(krate, <<>>)

\* The hook a node is passed to as the node visited ("" for the kinds that
\* have no hook of their own and are taken apart by the walk routine of the
\* node above them).  A function is passed to visit_fn with the node that
\* holds its declaration and body.
HookOf(n) ==
    CASE n.k = "Name" -> "visit_name"
      [] n.k = "Ident" -> "visit_ident"
      [] n.k = "Mod" -> "visit_mod"
      [] n.k = "ForeignItem" -> "visit_foreign_item"
      [] n.k = "Item" -> "visit_item"
      [] n.k = "Local" -> "visit_local"
      [] n.k = "Block" -> "visit_block"
      [] n.k = "Stmt" -> "visit_stmt"
      [] n.k = "Arm" -> "visit_arm"
      [] n.k = "Pat" -> "visit_pat"
      [] n.k = "Expr" -> "visit_expr"
      [] n.k = "Ty" -> "visit_ty"
      [] n.k = "Generics" -> "visit_generics"
      [] n.k = "TraitItem" -> "visit_trait_item"
      [] n.k = "ImplItem" -> "visit_impl_item"
      [] n.k = "TraitRef" -> "visit_trait_ref"
      [] n.k = "TyParamBound" -> "visit_ty_param_bound"
      [] n.k = "PolyTraitRef" -> "visit_poly_trait_ref"
      [] n.k = "VariantData" -> "visit_variant_data"
      [] n.k = "StructField" -> "visit_struct_field"
      [] n.k = "EnumDef" -> "visit_enum_def"
      [] n.k = "Variant" -> "visit_variant"
      [] n.k = "Lifetime" -> "visit_lifetime"
      [] n.k = "LifetimeDef" -> "visit_lifetime_def"
      [] n.k = "Mac" -> "visit_mac"
      [] n.k = "Path" -> "visit_path"
      [] n.k = "PathListItem" -> "visit_path_list_item"
      [] n.k = "PathSegment" -> "visit_path_segment"
      [] n.k = "PathParameters" -> "visit_path_parameters"
      [] n.k = "TypeBinding" -> "visit_assoc_type_binding"
      [] n.k = "Attribute" -> "visit_attribute"
      [] n.k = "MacroDef" -> "visit_macro_def"
      [] n.k = "Visibility" -> "visit_vis"
      [] n.k = "FunctionRetTy" -> "visit_fn_ret_ty"
      [] n.k = "ItemKind" /\ n.v = "Fn" -> "visit_fn"
      [] n.k = "ImplItemKind" /\ n.v = "Method" -> "visit_fn"
      [] n.k = "TraitItemKind" /\ n.v = "Method" ->
            IF n.f[2] # <<>> THEN "visit_fn" ELSE ""
      [] n.k = "ExprKind" /\ n.v = "Closure" -> "visit_fn"
      [] OTHER -> ""

NoMacro == \A id \in NodeIds : NodeAt(id).k # "Mac"

\* C6: when walk_crate has ended on a tree without macro invocations, with a
\* visitor that overrides nothing, it has returned normally, every node of
\* a hooked kind was passed to its hook exactly once (an expression also to
\* the post-visit hook exactly once), and no hook was called with any other
\* node: a node handed down as a context argument got no second call.
Completeness ==
    (Finished /\ entry = "walk_crate" /\ visitor = DefaultVisitor /\ NoMacro) =>
        /\ status = "done"
        /\ \A id \in NodeIds :
              LET h == HookOf(NodeAt(id)) IN
              /\ h # "" => Cardinality(At(h, id)) = 1
              /\ h = "visit_expr" => Cardinality(At("visit_expr_post", id)) = 1
        /\ \A i \in Idx :
              /\ trace[i].id \in NodeIds
              /\ trace[i].h \in {HookOf(NodeAt(trace[i].id))}
                                \cup (IF NodeAt(trace[i].id).k = "Expr"
                                      THEN {"visit_expr_post"} ELSE {})

\* A completed traversal in which nodes were handed down as context: the
\* enum's generics to visit_variant, the prefix to visit_path_list_item, the
\* item's visibility inside FnKind::ItemFn.
CompleteWithContext ==
    /\ status = "done"
    /\ entry = "walk_crate"
    /\ visitor = DefaultVisitor
    /\ NoMacro
    /\ \E i \in Idx :
          /\ trace[i].h \in {"visit_variant", "visit_path_list_item", "visit_fn"}
          /\ trace[i].x.ctx # <<>>
          /\ \A j \in 1..Len(trace[i].x.ctx) :
                trace[i].x.ctx[j] # <<>> =>
                    Cardinality(At(HookOf(NodeAt(trace[i].x.ctx[j])), trace[i].x.ctx[j])) = 1

(***************************************************************************)
(* C7: fail-fast on macro invocations                                      *)
(***************************************************************************)
\* The id of the node that holds the node id in one of its fields.
Parent(id) == SubSeq(id, 1, Len(id) - 2)

\* The kinds of node a macro invocation can sit in, by position.
MacPositions ==
    {<<"ItemKind", "Mac">>, <<"Ty", "Mac">>, <<"Pat", "Mac">>, <<"Expr", "Mac">>,
     <<"Stmt", "Mac">>, <<"TraitItemKind", "Macro">>, <<"ImplItemKind", "Macro">>}

\* C7: with a visitor that does not override visit_mac, a visit_mac call is
\* the last thing the traversal does: it ends with the fatal signal, no call
\* is pending and no hook is invoked afterwards, so whatever the walk routine
\* above would still have visited (the attributes of the item or statement,
\* the siblings that follow) is not visited; and the fatal signal has no
\* other origin.  Walking a crate that holds a macro invocation with the
\* visitor that overrides nothing never completes normally.
FailFast ==
    visitor.hook # "visit_mac" =>
        /\ \A i \in Idx :
              trace[i].h = "visit_mac" =>
                  /\ status = "panic"
                  /\ stack = <<>>
                  /\ i = Len(trace)
                  /\ <<NodeAt(Parent(trace[i].id)).k, NodeAt(Parent(trace[i].id)).v>>
                        \in MacPositions
        /\ status = "panic" => (trace # <<>> /\ trace[Len(trace)].h = "visit_mac")
        /\ (Finished /\ visitor = DefaultVisitor /\ entry = "walk_crate" /\ ~NoMacro) =>
              status = "panic"

\* The traversal was ended by the macro of a StmtKind::Mac statement that
\* carries attributes, none of which was visited.
StmtMacPanicked ==
    /\ status = "panic"
    /\ visitor = DefaultVisitor
    /\ LET s == NodeAt(Parent(trace[Len(trace)].id)) IN
          /\ s.k = "Stmt"
          /\ s.v = "Mac"
          /\ Len(s.f[2]) = 2
    /\ \A i \in Idx : trace[i].h # "visit_attribute"

(***************************************************************************)
(* C8: walk_list!                                                          *)
(***************************************************************************)
\* A call of the hook walk_list! was given, on an element of the list (the
\* calls the hook's own walk makes on nodes further down have longer ids).
IsListCall(e) == e.h = krate.v /\ Len(e.id) <= 2

ListCalls == SelectSeq(trace, IsListCall)

\* The calls of hook h on the elements of an optional field of the node
\* visited by event i; slot is the path of fields from that node to it.
OptCalls(i, h, slot) ==
    {j \in Idx : trace[j].h = h /\ Len(trace[j].id) = Len(trace[i].id) + Len(slot) + 1
                 /\ IsPrefix(trace[i].id \o slot, trace[j].id)}

\* C8: walk_list! over a list of k elements calls the hook once per element,
\* in list order, each call with the same extra arguments, and nothing else:
\* at any moment the calls made so far are those for the first elements of
\* the list, and when the walk returns they are k (none for an empty list).
\* An optional child is walked the same way, zero times or once.
ListTraversal ==
    /\ entry = "walk_list" =>
          LET k == Len(krate.f[1]) IN
          /\ Len(ListCalls) <= k
          /\ \A i \in 1..Len(ListCalls) :
                ListCalls[i] = [h |-> krate.v, id |-> <<1, i>>, x |-> ListExtra(krate)]
          /\ status = "done" => Len(ListCalls) = k
          /\ (k = 0) => (status = "done" /\ trace = <<>>)
    /\ (entry = "walk_crate" /\ status = "done") =>
          \A i \in Idx :
              /\ (trace[i].h = "visit_item" /\ WalkRan(i)
                    /\ NodeAt(trace[i].id).f[3][1].v = "ExternCrate") =>
                    Cardinality(OptCalls(i, "visit_name", <<3, 1, 1>>))
                        = Len(NodeAt(trace[i].id).f[3][1].f[1])
              /\ (trace[i].h = "visit_local" /\ WalkRan(i)) =>
                    /\ Cardinality(OptCalls(i, "visit_ty", <<3>>))
                          = Len(NodeAt(trace[i].id).f[3])
                    /\ Cardinality(OptCalls(i, "visit_expr", <<4>>))
                          = Len(NodeAt(trace[i].id).f[4])

\* walk_list! has returned after walking a list of two or more variants,
\* each call carrying the generics and the item id as extra arguments.
ListWalked ==
    /\ entry = "walk_list"
    /\ status = "done"
    /\ krate.v = "visit_variant"
    /\ Len(krate.f[1]) >= 2
    /\ krate.f[1][1] # krate.f[1][2]
    /\ Len(ListCalls) = Len(krate.f[1])
    /\ ListCalls[1].x.ctx # <<>>

(***************************************************************************)
(* C9: fn f(x: T) -> U { x }                                               *)
(***************************************************************************)
ScenarioCrate == CrateOf(<<ScenarioFn>>)

\* The ids of the item (the only item of the crate's module) and of its parts.
TheItem == <<1, 1, 1, 1>>
TheFn == TheItem \o <<3, 1>>
TheDecl == TheFn \o <<1, 1>>
TheArg == TheDecl \o <<1, 1>>
TheRet == TheDecl \o <<2, 1>>
TheBody == TheFn \o <<3, 1>>
TheStmt == TheBody \o <<1, 1>>

LeafHooks == {"visit_name", "visit_path", "visit_path_segment", "visit_path_parameters"}

\* A hook call made while the item is walked, other than the name and path
\* calls nested under its parts (the call on the item's own name counts).
IsItemCall(e) ==
    /\ Below(TheItem, e.id)
    /\ e.h \notin LeafHooks
    /\ e.h = "visit_ident" => e.id = TheItem \o <<2, 1>>

Brief(e) == <<e.h, e.id, e.x.tag>>

ItemCalls ==
    LET s == SelectSeq(trace, IsItemCall) IN [i \in 1..Len(s) |-> Brief(s[i])]

IsNotRetWrapper(b) == b[1] # "visit_fn_ret_ty"

\* C9 as stated: visibility, name, visit_fn (ItemFn), parameter pattern,
\* parameter type, return type, block, statement, expression, post-visit of
\* the expression, and no call for an attribute; nothing in between.  The
\* call of visit_fn_ret_ty that wraps the return type is read as part of
\* "return type U".
ScenarioAsStated ==
    (krate = ScenarioCrate /\ visitor = DefaultVisitor /\ Finished) =>
        SelectSeq(ItemCalls, IsNotRetWrapper) =
            << <<"visit_vis", TheItem \o <<1, 1>>, "">>,
               <<"visit_ident", TheItem \o <<2, 1>>, "">>,
               <<"visit_fn", TheFn, "ItemFn">>,
               <<"visit_pat", TheArg \o <<1, 1>>, "">>,
               <<"visit_ty", TheArg \o <<2, 1>>, "">>,
               <<"visit_ty", TheRet \o <<1, 1>>, "">>,
               <<"visit_block", TheBody, "">>,
               <<"visit_stmt", TheStmt, "">>,
               <<"visit_expr", TheStmt \o <<1, 1>>, "">>,
               <<"visit_expr_post", TheStmt \o <<1, 1>>, "">> >>

ScenarioSequence ==
    << <<"visit_vis", TheItem \o <<1, 1>>, "">>,
       <<"visit_ident", TheItem \o <<2, 1>>, "">>,
       <<"visit_fn", TheFn, "ItemFn">>,
       <<"visit_pat", TheArg \o <<1, 1>>, "">>,
       <<"visit_ty", TheArg \o <<2, 1>>, "">>,
       <<"visit_fn_ret_ty", TheRet, "">>,
       <<"visit_ty", TheRet \o <<1, 1>>, "">>,
       <<"visit_generics", TheFn \o <<2, 1>>, "">>,
       <<"visit_block", TheBody, "">>,
       <<"visit_stmt", TheStmt, "">>,
       <<"visit_expr", TheStmt \o <<1, 1>>, "">>,
       <<"visit_expr_post", TheStmt \o <<1, 1>>, "">> >>

\* C9 as amended: the sequence is visibility, name, visit_fn (ItemFn),
\* parameter pattern, parameter type, visit_fn_ret_ty, return type, the
\* function's generics, block, statement, expression, post-visit of the
\* expression, and no call for an attribute: the calls made so far are
\* always the first calls of that sequence, and all of it once the traversal
\* has ended, which it does by returning.
Scenario ==
    (krate = ScenarioCrate /\ visitor = DefaultVisitor) =>
        /\ IsPrefix(ItemCalls, ScenarioSequence)
        /\ Finished => (status = "done" /\ ItemCalls = ScenarioSequence)
        /\ \A i \in Idx : trace[i].h # "visit_attribute"

\* The traversal of the function has returned, the generics visited.
ScenarioWalked ==
    /\ krate = ScenarioCrate
    /\ visitor = DefaultVisitor
    /\ status = "done"
    /\ At("visit_generics", TheFn \o <<2, 1>>) # {}
    /\ At("visit_expr_post", TheStmt \o <<1, 1>>) # {}

(***************************************************************************)
(* C10: walk_crate                                                         *)
(***************************************************************************)
\* A hook call on a child of the crate: the module <<1, 1>>, the i-th
\* attribute <<2, i>> or the i-th exported macro <<3, i>>.
IsCrateCall(e) == Len(e.id) = 2 /\ e.h # "extra"

CrateCalls ==
    LET s == SelectSeq(trace, IsCrateCall) IN [i \in 1..Len(s) |-> <<s[i].h, s[i].id>>]

CrateSequence ==
    << <<"visit_mod", <<1, 1>> >> >>
    \o [i \in 1..Len(krate.f[2]) |-> <<"visit_attribute", <<2, i>> >>]
    \o [i \in 1..Len(krate.f[3]) |-> <<"visit_macro_def", <<3, i>> >>]

InModule(id) == IsPrefix(<<1, 1>>, id)

\* C10: the calls walk_crate makes are one visit_mod on the module, then
\* visit_attribute on each crate attribute in order, then visit_macro_def on
\* each exported macro in order (all of them once walk_crate has returned);
\* visit_mod is the first call of the traversal and, unless overridden, has
\* every item of the module visited; when a crate attribute or an exported
\* macro is visited, every call made in the module precedes it and no call in
\* the module is pending.
CrateOrder ==
    entry = "walk_crate" =>
        /\ IsPrefix(CrateCalls, CrateSequence)
        /\ status = "done" => CrateCalls = CrateSequence
        /\ trace # <<>> => (trace[1].h = "visit_mod" /\ trace[1].id = <<1, 1>>)
        /\ (status = "done" /\ visitor.hook # "visit_mod") =>
              \A k \in 1..Len(krate.f[1][1].f[1]) : At("visit_item", <<1, 1, 1, k>>) # {}
        /\ \A i \in Idx :
              (Len(trace[i].id) = 2 /\ trace[i].id[1] \in {2, 3}) =>
                  /\ \A j \in Idx : InModule(trace[j].id) => j < i
                  /\ \A j \in 1..Len(stack) : ~InModule(stack[j].id)

\* walk_crate has returned from a crate with several items, two attributes
\* and two exported macros.
CrateWalked ==
    /\ entry = "walk_crate"
    /\ status = "done"
    /\ visitor = DefaultVisitor
    /\ Len(krate.f[1][1].f[1]) >= 2
    /\ Len(krate.f[2]) >= 2
    /\ Len(krate.f[3]) >= 2
    /\ Len(CrateCalls) = 5

(***************************************************************************)
(* C11: walk_item                                                          *)
(***************************************************************************)
\* The calls made below the node of event i, and for such a call j the field
\* of that node it was made in and the element of the field.
Sub(i) == {j \in Idx : Below(trace[i].id, trace[j].id)}
SlotAt(i, j) == trace[j].id[Len(trace[i].id) + 1]
ElemAt(i, j) == trace[j].id[Len(trace[i].id) + 2]

\* Call j is made by the walk routine of event i itself, on a child.
Direct(i, j) ==
    /\ j \in Sub(i)
    /\ Len(trace[j].id) = Len(trace[i].id) + 2
    /\ trace[j].h \notin {"extra", "visit_expr_post"}

\* The calls below the node of event i follow it without a gap, field after
\* field in the order rank gives the fields, and within a field element
\* after element.
InFieldOrder(i, rank(_)) ==
    \A j \in Sub(i) :
        /\ j = i + 1 \/ (j - 1) \in Sub(i)
        /\ (j - 1) \in Sub(i) =>
              \/ rank(SlotAt(i, j - 1)) < rank(SlotAt(i, j))
              \/ /\ SlotAt(i, j - 1) = SlotAt(i, j)
                 /\ ElemAt(i, j - 1) <= ElemAt(i, j)

\* Item: visibility, name, kind, attributes.
ItemRank(s) == s

ItemsWalked == {i \in Idx : trace[i].h = "visit_item" /\ WalkRan(i)}

\* C11: in a traversal that has ended, for every item walk_item ran on, the
\* calls in the item come in the order visibility, name, the calls of the
\* item's kind, attributes in list order: the call right after visit_item is
\* visit_vis on the visibility, visit_ident on the name is made before any
\* call of the kind, and no call of the kind follows an attribute call.  If
\* the traversal returned, visibility, name and every attribute were visited
\* exactly once.
ItemOrder ==
    Finished =>
        \A i \in ItemsWalked :
            LET I == trace[i].id
                item == NodeAt(I)
            IN
            /\ InFieldOrder(i, ItemRank)
            /\ i < Len(trace) => Is(i + 1, "visit_vis", I \o <<1, 1>>)
            /\ \A j \in Sub(i) :
                  /\ (Direct(i, j) /\ SlotAt(i, j) = 1) => trace[j].h = "visit_vis"
                  /\ (Direct(i, j) /\ SlotAt(i, j) = 2) => trace[j].h = "visit_ident"
                  /\ (Direct(i, j) /\ SlotAt(i, j) = 4) => trace[j].h = "visit_attribute"
                  /\ SlotAt(i, j) >= 3 => At("visit_ident", I \o <<2, 1>>) # {}
                  /\ Direct(i, j) => Cardinality(At(trace[j].h, trace[j].id)) = 1
            /\ status = "done" =>
                  /\ At("visit_vis", I \o <<1, 1>>) # {}
                  /\ At("visit_ident", I \o <<2, 1>>) # {}
                  /\ \A a \in 1..Len(item.f[4]) : At("visit_attribute", I \o <<4, a>>) # {}

\* The traversal returned after walking an item with two attributes whose
\* kind made calls of its own.
ItemWalked ==
    /\ status = "done"
    /\ \E i \in ItemsWalked :
          /\ Len(NodeAt(trace[i].id).f[4]) = 2
          /\ \E j \in Sub(i) : SlotAt(i, j) = 3
          /\ \E j \in Sub(i) : SlotAt(i, j) = 4 /\ ElemAt(i, j) = 2

(***************************************************************************)
(* C12: walk_fn                                                            *)
(***************************************************************************)
FnsWalked == {i \in Idx : trace[i].h = "visit_fn" /\ WalkRan(i)}

\* The calls below the node of event i that are not made inside another
\* call below it: the calls the walk routine of event i makes itself (the
\* post-visit of a child expression is made by that child's walk_expr).
Outer(i) ==
    {j \in Sub(i) : /\ trace[j].h \notin {"extra", "visit_expr_post"}
                    /\ \A k \in Sub(i) : ~Below(trace[k].id, trace[j].id)}

\* The ids of the declaration, the generics and the body of the function of
\* visit_fn event i, from the FnKind it was called with.
DeclAt(i) ==
    IF trace[i].x.tag = "Method" THEN trace[i].id \o <<1, 1, 1, 1>> ELSE trace[i].id \o <<1, 1>>

GenericsAt(i) ==
    CASE trace[i].x.tag = "ItemFn" -> <<trace[i].id \o <<2, 1>> >>
      [] trace[i].x.tag = "Method" -> <<trace[i].id \o <<1, 1, 2, 1>> >>
      [] OTHER -> <<>>

BodyAt(i) ==
    IF trace[i].x.tag = "ItemFn" THEN trace[i].id \o <<3, 1>> ELSE trace[i].id \o <<2, 1>>

\* For each parameter its pattern then its type, the return type, the
\* generics of the FnKind (none for a closure), the body.
FnSequence(i) ==
    LET D == DeclAt(i) IN
    Flat([a \in 1..Len(NodeAt(D).f[1]) |->
            << <<"visit_pat", D \o <<1, a, 1, 1>> >>, <<"visit_ty", D \o <<1, a, 2, 1>> >> >>])
    \o << <<"visit_fn_ret_ty", D \o <<2, 1>> >> >>
    \o [g \in 1..Len(GenericsAt(i)) |-> <<"visit_generics", GenericsAt(i)[g]>>]
    \o << <<"visit_block", BodyAt(i)>> >>

\* The calls of event i's walk routine are the first calls of the sequence
\* E, each made once and in the order of E, and all of E if the traversal
\* returned.
MakesInOrder(i, E) ==
    /\ \A j \in Outer(i) : \E m \in 1..Len(E) : E[m] = <<trace[j].h, trace[j].id>>
    /\ \A m \in 1..Len(E) :
          /\ Cardinality(At(E[m][1], E[m][2])) <= 1
          /\ status = "done" => At(E[m][1], E[m][2]) # {}
          /\ (m > 1 /\ At(E[m][1], E[m][2]) # {}) =>
                \E a \in At(E[m - 1][1], E[m - 1][2]) :
                    \A b \in At(E[m][1], E[m][2]) : a < b

\* C12: in a traversal that has ended, the calls the default visit_fn makes
\* are, in this order and each once: for each parameter in order its pattern
\* then its type, visit_fn_ret_ty on the return type, visit_generics on the
\* generics the FnKind carries (the item's for ItemFn, the signature's for
\* Method, none for Closure), visit_block on the body, which is last; they
\* are the first calls of that sequence if the traversal was cut short.
FnOrder ==
    Finished => \A i \in FnsWalked : MakesInOrder(i, FnSequence(i))

\* The traversal returned after the default visit_fn walked a function with
\* two parameters and generics.
FnWalked ==
    /\ status = "done"
    /\ \E i \in FnsWalked :
          /\ Len(NodeAt(DeclAt(i)).f[1]) = 2
          /\ GenericsAt(i) # <<>>
          /\ At("visit_block", BodyAt(i)) # {}

(***************************************************************************)
(* C13: expression attributes and visit_expr_post                          *)
(***************************************************************************)
ExprsWalked == {i \in Idx : trace[i].h = "visit_expr" /\ WalkRan(i)}

PostAt(id) == At("visit_expr_post", id)

\* C13: in a traversal that has ended, for every expression walk_expr ran
\* on: the calls on the expression's attributes (its field 1) are
\* visit_attribute calls, made in list order before every other call in the
\* expression; visit_expr_post is called on the expression at most once,
\* after visit_expr and after every call made in the expression, and exactly
\* once, as are the attribute calls, if the traversal returned.  So the
\* post-visit of an expression nested in another precedes the post-visit of
\* the outer one.
ExprAttrsAndPost ==
    Finished =>
        /\ \A i \in ExprsWalked :
              LET E == trace[i].id IN
              /\ \A j \in Sub(i) :
                    SlotAt(i, j) = 1 =>
                        /\ Direct(i, j) => trace[j].h = "visit_attribute"
                        /\ Cardinality(At("visit_attribute", trace[j].id)) = 1
                        /\ \A k \in Sub(i) :
                              \/ SlotAt(i, k) # 1 /\ j < k
                              \/ SlotAt(i, k) = 1 /\ ElemAt(i, k) < ElemAt(i, j) /\ k < j
                              \/ SlotAt(i, k) = 1 /\ ElemAt(i, k) = ElemAt(i, j)
                              \/ SlotAt(i, k) = 1 /\ ElemAt(i, k) > ElemAt(i, j) /\ j < k
              /\ Cardinality(PostAt(E)) <= 1
              /\ \A p \in PostAt(E) : i < p /\ \A j \in Sub(i) : j < p
              /\ status = "done" =>
                    /\ Cardinality(PostAt(E)) = 1
                    /\ \A a \in 1..Len(NodeAt(E).f[1]) :
                          At("visit_attribute", E \o <<1, a>>) # {}
        /\ \A i, k \in ExprsWalked :
              Below(trace[i].id, trace[k].id) =>
                  \A p \in PostAt(trace[i].id) :
                      /\ PostAt(trace[k].id) # {}
                      /\ \A q \in PostAt(trace[k].id) : q < p

\* The traversal returned after walking an expression with two attributes
\* and operands of its own.
ExprWalked ==
    /\ status = "done"
    /\ visitor = DefaultVisitor
    /\ \E i \in ExprsWalked :
          /\ Len(NodeAt(trace[i].id).f[1]) = 2
          /\ \E k \in ExprsWalked : Below(trace[i].id, trace[k].id)
          /\ PostAt(trace[i].id) # {}

(***************************************************************************)
(* C14: if and if let                                                      *)
(***************************************************************************)
AttrCalls(E) == [a \in 1..Len(NodeAt(E).f[1]) |-> <<"visit_attribute", E \o <<1, a>> >>]

\* What walk_expr is to call for the if / if let expression with id E.
IfSequence(E) ==
    IF NodeAt(E).v = "If"
    THEN AttrCalls(E)
         \o << <<"visit_expr", E \o <<2, 1>> >>, <<"visit_block", E \o <<3, 1>> >> >>
         \o [a \in 1..Len(NodeAt(E).f[4]) |-> <<"visit_expr", E \o <<4, a>> >>]
    ELSE AttrCalls(E)
         \o << <<"visit_pat", E \o <<2, 1>> >>, <<"visit_expr", E \o <<3, 1>> >>,
               <<"visit_block", E \o <<4, 1>> >> >>
         \o [a \in 1..Len(NodeAt(E).f[5]) |-> <<"visit_expr", E \o <<5, a>> >>]

\* The then-block and the optional else of the if / if let with id E.
ThenOf(E) == IF NodeAt(E).v = "If" THEN E \o <<3, 1>> ELSE E \o <<4, 1>>
ElseOf(E) == IF NodeAt(E).v = "If" THEN NodeAt(E).f[4] ELSE NodeAt(E).f[5]

\* C14: in a traversal that has ended, for an if the calls walk_expr makes
\* are, in order and each once, the condition, the then-block and the else
\* expression if there is one; for an if let the pattern, the scrutinee, the
\* then-block and the else expression if there is one (the first of these if
\* the traversal was cut short), every call inside one of them preceding the
\* calls of the next.  Without an else, the call that precedes the post-visit
\* of the expression is the last call of the then-block.
IfOrder ==
    Finished =>
        \A i \in WalkedExprs({"If", "IfLet"}) :
            LET E == trace[i].id IN
            /\ MakesInOrder(i, IfSequence(E))
            /\ InFieldOrder(i, ItemRank)
            /\ ElseOf(E) = <<>> =>
                  \A p \in PostAt(E) : Under(ThenOf(E), trace[p - 1].id)

\* The traversal returned after walking an if with an else and an if let
\* without one.
IfWalked ==
    /\ status = "done"
    /\ \E i \in WalkedExprs({"If"}) :
          /\ ElseOf(trace[i].id) # <<>>
          /\ At("visit_expr", trace[i].id \o <<4, 1>>) # {}
    /\ \E i \in WalkedExprs({"IfLet"}) :
          /\ ElseOf(trace[i].id) = <<>>
          /\ At("visit_block", trace[i].id \o <<4, 1>>) # {}

(***************************************************************************)
(* C15: ObjectSum, PolyTraitRef, ImplTrait                                 *)
(***************************************************************************)
BoundTys == {"ObjectSum", "PolyTraitRef", "ImplTrait"}

TysWalked(vs) ==
    {i \in Idx : trace[i].h = "visit_ty" /\ WalkRan(i) /\ NodeAt(trace[i].id).v \in vs}

\* The field of the type with id T that holds its bound list.
BoundSlot(T) == IF NodeAt(T).v = "ObjectSum" THEN 2 ELSE 1

BoundCalls(T) ==
    [b \in 1..Len(NodeAt(T).f[BoundSlot(T)]) |->
        <<"visit_ty_param_bound", T \o <<BoundSlot(T), b>> >>]

\* C15 as stated: for an ObjectSum, PolyTraitRef or ImplTrait type the calls
\* walk_ty makes are one visit_ty_param_bound per bound, in list order, and
\* nothing else.
BoundsOnlyAsStated ==
    Finished =>
        \A i \in TysWalked(BoundTys) : MakesInOrder(i, BoundCalls(trace[i].id))

\* What walk_ty calls for the type with id T: an ObjectSum has its base type
\* visited before its bounds.
BoundTySequence(T) ==
    IF NodeAt(T).v = "ObjectSum"
    THEN << <<"visit_ty", T \o <<1, 1>> >> >> \o BoundCalls(T)
    ELSE BoundCalls(T)

\* C15 as amended: for a PolyTraitRef or ImplTrait type the calls walk_ty
\* makes are one visit_ty_param_bound per bound, in list order, and nothing
\* else; for an ObjectSum they are visit_ty on the base type and then one
\* visit_ty_param_bound per bound, in list order, and nothing else.
BoundsAfterBaseType ==
    Finished =>
        \A i \in TysWalked(BoundTys) : MakesInOrder(i, BoundTySequence(trace[i].id))

\* The traversal returned after walking an ObjectSum with two bounds and a
\* PolyTraitRef with two bounds.
BoundTysWalked ==
    /\ status = "done"
    /\ \E i \in TysWalked({"ObjectSum"}) :
          /\ Len(BoundCalls(trace[i].id)) = 2
          /\ At("visit_ty", trace[i].id \o <<1, 1>>) # {}
          /\ At("visit_ty_param_bound", trace[i].id \o <<2, 2>>) # {}
    /\ \E i \in TysWalked({"PolyTraitRef"}) :
          /\ Len(BoundCalls(trace[i].id)) = 2
          /\ At("visit_ty_param_bound", trace[i].id \o <<1, 2>>) # {}

(***************************************************************************)
(* C16: termination                                                        *)
(***************************************************************************)
\* The ways a traversal can be: under way with a call pending, or ended with
\* none, by returning or by the panic of a visit_mac that was not overridden.
EndsOneWay ==
    /\ status \in {"running", "done", "panic"}
    /\ status = "running" <=> stack # <<>>
    /\ status = "panic" =>
          /\ visitor.hook # "visit_mac"
          /\ Is(Len(trace), "visit_mac", trace[Len(trace)].id)
    /\ (Finished /\ visitor = DefaultVisitor /\ entry = "walk_crate" /\ NoMacro) =>
          status = "done"
    /\ (Finished /\ visitor.mode = "noop"
          /\ \A i \in Idx : trace[i].h # "visit_mac") => status = "done"

\* C16: every traversal ends, by returning or by the panic of visit_mac and
\* in no other way, and once ended does nothing more.  With the visitor that
\* overrides nothing and a crate without macro invocations it returns; with
\* a visitor whose override does nothing it returns unless a visit_mac that
\* was not overridden is reached.
Termination ==
    /\ <>Finished
    /\ []EndsOneWay
    /\ [][status = "running"]_vars

\* A visitor whose override skips recursion has returned from a crate that
\* holds a macro invocation.
SkippedPastMacro ==
    /\ status = "done"
    /\ entry = "walk_crate"
    /\ visitor.mode = "noop"
    /\ trace # <<>>
    /\ ~NoMacro

(***************************************************************************)
(* C17: trait methods                                                      *)
(***************************************************************************)
\* The visit_trait_item calls on a method, with a body or without, for which
\* walk_trait_item ran.
MethodsWalked(withBody) ==
    {i \in Idx : /\ trace[i].h = "visit_trait_item"
                 /\ WalkRan(i)
                 /\ NodeAt(trace[i].id).f[3][1].v = "Method"
                 /\ (NodeAt(trace[i].id).f[3][1].f[2] # <<>>) = withBody}

\* The calls on the name and the attributes of the trait item with id T.
NameAndAttrs(T) ==
    << <<"visit_ident", T \o <<1, 1>> >> >>
    \o [a \in 1..Len(NodeAt(T).f[2]) |-> <<"visit_attribute", T \o <<2, a>> >>]

\* The calls walk_fn_decl makes for the declaration with id D.
DeclCalls(D) ==
    Flat([a \in 1..Len(NodeAt(D).f[1]) |->
            << <<"visit_pat", D \o <<1, a, 1, 1>> >>, <<"visit_ty", D \o <<1, a, 2, 1>> >> >>])
    \o << <<"visit_fn_ret_ty", D \o <<2, 1>> >> >>

\* The ids of the method (the TraitItemKind), of its signature's generics
\* and of its declaration.
MethodOf(T) == T \o <<3, 1>>
SigGenerics(T) == MethodOf(T) \o <<1, 1, 2, 1>>
SigDecl(T) == MethodOf(T) \o <<1, 1, 1, 1>>

\* C17: in a traversal that has ended, walk_trait_item visits the name and
\* then the attributes of a method before anything else of it.  For a
\* method with a body the only other call it makes is one visit_fn, with
\* FnKind::Method carrying the name and no visibility, whose default visits
\* the declaration, then the signature's generics, then the block.  For a
\* method without a body it calls visit_generics on the signature's generics
\* and then walks the declaration, and no visit_fn or visit_block call is
\* made in the item.  The generics are visited at most once, and exactly once
\* if the traversal returned and, for a method with a body, the default
\* visit_fn ran.
TraitMethod ==
    Finished =>
        /\ \A i \in MethodsWalked(TRUE) :
              LET T == trace[i].id IN
              /\ MakesInOrder(i, NameAndAttrs(T) \o << <<"visit_fn", MethodOf(T)>> >>)
              /\ Cardinality(At("visit_generics", SigGenerics(T))) <= 1
              /\ \A j \in At("visit_fn", MethodOf(T)) :
                    /\ trace[j].x = [tag |-> "Method", ctx |-> <<T \o <<1, 1>> >>]
                    /\ WalkRan(j) =>
                          /\ MakesInOrder(j, DeclCalls(SigDecl(T))
                                             \o << <<"visit_generics", SigGenerics(T)>>,
                                                   <<"visit_block", MethodOf(T) \o <<2, 1>> >> >>)
                          /\ status = "done" => At("visit_generics", SigGenerics(T)) # {}
        /\ \A i \in MethodsWalked(FALSE) :
              LET T == trace[i].id IN
              /\ MakesInOrder(i, NameAndAttrs(T)
                                 \o << <<"visit_generics", SigGenerics(T)>> >>
                                 \o DeclCalls(SigDecl(T)))
              /\ \A j \in Sub(i) : trace[j].h \notin {"visit_fn", "visit_block"}

\* The traversal returned after walking a trait method without a body and
\* one with a body, each with an attribute, a parameter and generics.
TraitMethodsWalked ==
    /\ status = "done"
    /\ visitor = DefaultVisitor
    /\ \E i \in MethodsWalked(FALSE) :
          /\ At("visit_generics", SigGenerics(trace[i].id)) # {}
          /\ At("visit_attribute", trace[i].id \o <<2, 1>>) # {}
          /\ At("visit_pat", SigDecl(trace[i].id) \o <<1, 1, 1, 1>>) # {}
    /\ \E i \in MethodsWalked(TRUE) :
          /\ At("visit_fn", MethodOf(trace[i].id)) # {}
          /\ At("visit_generics", SigGenerics(trace[i].id)) # {}
          /\ At("visit_block", MethodOf(trace[i].id) \o <<2, 1>>) # {}

====
